---- MODULE Spec2Model ----
(***************************************************************************)
(* Container codec and repack engine of the CarX Drift Online save editor: *)
(* core/extract.py (scanner, extract), core/repack.py (repack_preflight,   *)
(* repack), core/memory_codec.py and core/json_ops.py.                     *)
(*                                                                         *)
(* A file is a sequence of bytes (0..255).  Python offsets are 0-based:    *)
(* the byte at offset k of data is data[k+1].  A text is a sequence of     *)
(* UTF-16 code units.                                                      *)
(***************************************************************************)
EXTENDS Integers, Sequences, FiniteSets, TLC

----------------------------------------------------------------------------
(* Python helpers *)

Min(a, b) == IF a <= b THEN a ELSE b

Max(a, b) == IF a >= b THEN a ELSE b

SetMin(S) == CHOOSE x \in S : \A y \in S : x <= y

SetMax(S) == CHOOSE x \in S : \A y \in S : x >= y

\* data[lo:hi] of Python, for 0 <= lo: both ends are clamped to the length.
Slice(data, lo, hi) == SubSeq(data, lo + 1, Min(hi, Len(data)))

\* b * n of Python: n copies of the byte string b, nothing when n <= 0.
Repeat(b, n) == [k \in 1..(Len(b) * Max(n, 0)) |-> b[((k - 1) % Len(b)) + 1]]

\* data.startswith(pat, off)
MatchAt(data, pat, off) ==
    /\ off >= 0
    /\ off + Len(pat) <= Len(data)
    /\ \A k \in 1..Len(pat) : data[off + k] = pat[k]

\* data.find(pat, pos): the lowest offset >= pos where pat occurs, else -1.
Find(data, pat, pos) ==
    LET hits == {k \in pos..(Len(data) - Len(pat)) : MatchAt(data, pat, k)}
    IN  IF hits = {} THEN -1 ELSE SetMin(hits)

\* data.rfind(c) for one element c: the highest offset where c occurs, else -1.
RFind(data, c) ==
    LET hits == {k \in 0..(Len(data) - 1) : data[k + 1] = c}
    IN  IF hits = {} THEN -1 ELSE SetMax(hits)

\* data.count(c) for one element c.
Count(data, c) == Cardinality({k \in 1..Len(data) : data[k] = c})

\* b"".join(s.split()): s[lo..hi] without its whitespace bytes (the range is
\* halved at each step to keep the evaluation shallow).
RECURSIVE StripWsRange(_, _, _)
StripWsRange(s, lo, hi) ==
    IF lo > hi THEN <<>>
    ELSE IF lo = hi THEN (IF s[lo] \in {32, 9, 10, 13} THEN <<>> ELSE <<s[lo]>>)
    ELSE StripWsRange(s, lo, (lo + hi) \div 2)
            \o StripWsRange(s, (lo + hi) \div 2 + 1, hi)

StripWs(s) == StripWsRange(s, 1, Len(s))

\* little-endian u32 at offset off (struct.unpack_from("<I", data, off)).
U32(data, off) ==
    data[off + 1] + 256 * data[off + 2] + 65536 * data[off + 3]
        + 16777216 * data[off + 4]

\* struct.pack("<I", v)
PackU32(v) ==
    <<v % 256, (v \div 256) % 256, (v \div 65536) % 256, (v \div 16777216) % 256>>

----------------------------------------------------------------------------
(* ASCII *)

SP == 32
TAB == 9
LF == 10
CR == 13
EQ == 61
BACKSLASH == 92
LBRACK == 91
RBRACK == 93
RBRACE == 125
COMMA == 44
BOM == 65279

\* str.strip() / bytes.split() whitespace that occurs in the modelled texts.
IsSpace(c) == c \in {SP, TAB, LF, CR}

----------------------------------------------------------------------------
(* core/memory_codec.py: base64 *)

\* The base64 alphabet: value 0..63 -> ASCII code.
B64Char(v) ==
    IF v < 26 THEN 65 + v
    ELSE IF v < 52 THEN 97 + (v - 26)
    ELSE IF v < 62 THEN 48 + (v - 52)
    ELSE IF v = 62 THEN 43 ELSE 47

\* ASCII code -> value 0..63, or 64 for a byte outside the alphabet.
B64Val(c) ==
    IF c >= 65 /\ c <= 90 THEN c - 65
    ELSE IF c >= 97 /\ c <= 122 THEN c - 97 + 26
    ELSE IF c >= 48 /\ c <= 57 THEN c - 48 + 52
    ELSE IF c = 43 THEN 62
    ELSE IF c = 47 THEN 63 ELSE 64

\* base64.b64encode(gz): 3 bytes -> 4 characters, '=' padding at the end.
b64_encode(gz) ==
    LET n == Len(gz)
        groups == (n + 2) \div 3
        byteAt(k) == IF k <= n THEN gz[k] ELSE 0
        val(g) == byteAt(3 * g + 1) * 65536 + byteAt(3 * g + 2) * 256
                      + byteAt(3 * g + 3)
        sextet(g, q) ==
            CASE q = 0 -> val(g) \div 262144
              [] q = 1 -> (val(g) \div 4096) % 64
              [] q = 2 -> (val(g) \div 64) % 64
              [] OTHER -> val(g) % 64
        ch(g, q) ==
            IF (q = 2 /\ 3 * g + 2 > n) \/ (q = 3 /\ 3 * g + 3 > n)
            THEN EQ ELSE B64Char(sextet(g, q))
    IN  [k \in 1..(4 * groups) |-> ch((k - 1) \div 4, (k - 1) % 4)]

\* binascii.a2b_base64(s, strict_mode=strict), character by character.  st is
\* the decoder state [quad, left, pads, padStarted, out, done, err]: done once
\* a complete pad sequence ended the parse, err once binascii.Error is raised.
A2BStep(st, c, last, strict) ==
    IF st.done \/ st.err THEN st
    ELSE IF c = EQ
    THEN IF strict /\ st.quad = 0 THEN [st EXCEPT !.err = TRUE]
         ELSE IF st.quad >= 2 /\ st.quad + st.pads + 1 >= 4
              THEN IF strict /\ ~last THEN [st EXCEPT !.err = TRUE]
                   ELSE [st EXCEPT !.done = TRUE]
              ELSE [st EXCEPT !.padStarted = TRUE,
                              !.pads = IF st.quad >= 2 THEN st.pads + 1 ELSE st.pads]
    ELSE IF B64Val(c) = 64
    THEN IF strict THEN [st EXCEPT !.err = TRUE] ELSE st
    ELSE IF strict /\ st.padStarted THEN [st EXCEPT !.err = TRUE]
    ELSE
      LET v == B64Val(c) IN
      CASE st.quad = 0 ->
             [st EXCEPT !.quad = 1, !.left = v, !.pads = 0]
        [] st.quad = 1 ->
             [st EXCEPT !.quad = 2, !.left = v % 16, !.pads = 0,
                        !.out = Append(st.out, st.left * 4 + v \div 16)]
        [] st.quad = 2 ->
             [st EXCEPT !.quad = 3, !.left = v % 4, !.pads = 0,
                        !.out = Append(st.out, st.left * 16 + v \div 4)]
        [] OTHER ->
             [st EXCEPT !.quad = 0, !.left = 0, !.pads = 0,
                        !.out = Append(st.out, st.left * 64 + v)]

\* The decoder run over s[lo..hi] from state st (the range is halved at each
\* step to keep the evaluation shallow).
RECURSIVE A2BRange(_, _, _, _, _)
A2BRange(s, lo, hi, st, strict) ==
    IF st.done \/ st.err \/ lo > hi THEN st
    ELSE IF lo = hi THEN A2BStep(st, s[lo], lo = Len(s), strict)
    ELSE A2BRange(s, (lo + hi) \div 2 + 1, hi,
                  A2BRange(s, lo, (lo + hi) \div 2, st, strict), strict)

\* _try_b64_decode(s, validate): base64.b64decode, None ([ok |-> FALSE]) on
\* binascii.Error.  (b64decode is binascii.a2b_base64(s, strict_mode=validate);
\* data that ends inside a quad is an error.)
NoRaw == [ok |-> FALSE, raw |-> <<>>]

A2BResult(st) ==
    IF st.err \/ (~st.done /\ st.quad # 0) THEN NoRaw
    ELSE [ok |-> TRUE, raw |-> st.out]

TryB64Decode(s, validate) ==
    A2BResult(A2BRange(s, 1, Len(s),
                       [quad |-> 0, left |-> 0, pads |-> 0, padStarted |-> FALSE,
                        out |-> <<>>, done |-> FALSE, err |-> FALSE], validate))

\* _trim_after_padding(s): the longest prefix s[:end], end from len(s) down to
\* max(last_eq + 1, len(s) - 96) + 1, that decodes strictly; None otherwise.
NoTrim == [ok |-> FALSE, s |-> <<>>]

LongestOf(s, ends) ==
    IF ends = {} THEN NoTrim ELSE [ok |-> TRUE, s |-> Slice(s, 0, SetMax(ends))]

TrimSearch(s, stop) ==
    LongestOf(s, {end \in (stop + 1)..Len(s) :
                      TryB64Decode(Slice(s, 0, end), TRUE).ok})

TrimWindow == 96

TrimFrom(s, last_eq) ==
    IF last_eq < 0 THEN NoTrim
    ELSE TrimSearch(s, Max(last_eq + 1, Len(s) - TrimWindow))

TrimAfterPadding(s) == TrimFrom(s, RFind(s, EQ))

GzipMagic == <<31, 139>>

MinGzipLen == 10

\* The steps of b64_decode_gz, each tried only when the one before gave None:
\* the strict decode; the strict decode of the trimmed string; the relaxed
\* decode of the string padded to a multiple of 4.
FirstOk(raw, otherwise) == IF raw.ok THEN raw ELSE otherwise

DecodeTrimmed(trimmed) ==
    IF trimmed.ok THEN TryB64Decode(trimmed.s, TRUE) ELSE NoRaw

DecodeRelaxed(s) ==
    TryB64Decode(s \o Repeat(<<EQ>>, (4 - (Len(s) % 4)) % 4), FALSE)

\* The end of b64_decode_gz: None unless at least 10 bytes with the gzip magic.
GzipOrNone(raw) ==
    IF ~raw.ok \/ Len(raw.raw) < MinGzipLen THEN NoRaw
    ELSE IF Slice(raw.raw, 0, 2) # GzipMagic THEN NoRaw
    ELSE raw

\* b64_decode_gz(b64_stripped)
b64_decode_gz(b64_stripped) ==
    GzipOrNone(FirstOk(FirstOk(TryB64Decode(b64_stripped, TRUE),
                               DecodeTrimmed(TrimAfterPadding(b64_stripped))),
                       DecodeRelaxed(b64_stripped)))

----------------------------------------------------------------------------
(* core/memory_codec.py: gzip.  The deflate stream is modelled as one final  *)
(* stored block (01 LEN NLEN data), which zlib reads back like any other;    *)
(* the CRC-32 of the trailer is modelled by a byte sum.                      *)

RECURSIVE SumRange(_, _, _)
SumRange(b, lo, hi) ==
    IF lo > hi THEN 0
    ELSE IF lo = hi THEN b[lo]
    ELSE SumRange(b, lo, (lo + hi) \div 2) + SumRange(b, (lo + hi) \div 2 + 1, hi)

Crc(payload) == SumRange(payload, 1, Len(payload)) + Len(payload)

\* gzip_mtime(gz): the header's MTIME field, 0 without a gzip header.
gzip_mtime(gz) ==
    IF Len(gz) < MinGzipLen \/ Slice(gz, 0, 2) # GzipMagic THEN 0
    ELSE U32(gz, 4)

\* gzip_compress(payload, mtime): header (magic, CM=8, FLG=0, MTIME, XFL=2 for
\* level 9, OS=255), the deflate stream, CRC and ISIZE.
StoredHeader(n) == <<1, n % 256, n \div 256, 255 - (n % 256), 255 - (n \div 256)>>

gzip_compress(payload, mtime) ==
    GzipMagic \o <<8, 0>> \o PackU32(mtime) \o <<2, 255>>
        \o StoredHeader(Len(payload)) \o payload
        \o PackU32(Crc(payload)) \o PackU32(Len(payload))

\* gunzip(gz): zlib.decompressobj(wbits=31).decompress(gz).  The first member's
\* payload; bytes after the member are ignored; a stream that ends early gives
\* what was decoded so far; a corrupt stream raises zlib.error.
Inflated(data) == [raises |-> FALSE, out |-> data]

ZlibError == [raises |-> TRUE, out |-> <<>>]

\* After the stored block's data: the CRC and ISIZE of the trailer.
GunzipTrailer(gz, len, data) ==
    IF Len(gz) < 15 + len + 4 THEN Inflated(data)
    ELSE IF U32(gz, 15 + len) # Crc(data) THEN ZlibError
    ELSE IF Len(gz) < 15 + len + 8 THEN Inflated(data)
    ELSE IF U32(gz, 15 + len + 4) # len THEN ZlibError
    ELSE Inflated(data)

\* The stored block: LEN and NLEN, then LEN bytes of data.
GunzipStored(gz, len, nlen) ==
    IF len + nlen # 65535 THEN ZlibError
    ELSE GunzipTrailer(gz, len, Slice(gz, 15, 15 + len))

gunzip(gz) ==
    IF Len(gz) < 2 THEN Inflated(<<>>)
    ELSE IF Slice(gz, 0, 2) # GzipMagic THEN ZlibError
    ELSE IF Len(gz) < 4 THEN Inflated(<<>>)
    ELSE IF gz[3] # 8 \/ gz[4] # 0 THEN ZlibError
    ELSE IF Len(gz) < 11 THEN Inflated(<<>>)
    ELSE IF gz[11] # 1 THEN ZlibError
    ELSE IF Len(gz) < 15 THEN Inflated(<<>>)
    ELSE GunzipStored(gz, gz[12] + 256 * gz[13], gz[14] + 256 * gz[15])

----------------------------------------------------------------------------
(* Text codecs (Python's str.encode / bytes.decode) *)

IsHighSurrogate(u) == u >= 55296 /\ u <= 56319

IsLowSurrogate(u) == u >= 56320 /\ u <= 57343

\* The code units of the even-length prefix of b.
Utf16Units(b) ==
    [k \in 1..(Len(b) \div 2) |-> b[2 * k - 1] + 256 * b[2 * k]]

UnitPaired(u, k) ==
    /\ IsHighSurrogate(u[k]) => (k < Len(u) /\ IsLowSurrogate(u[k + 1]))
    /\ IsLowSurrogate(u[k]) => (k > 1 /\ IsHighSurrogate(u[k - 1]))

\* b.decode("utf-16le") succeeds: whole code units, surrogates in pairs.
Utf16Ok(b) ==
    /\ Len(b) % 2 = 0
    /\ \A k \in 1..(Len(b) \div 2) : UnitPaired(Utf16Units(b), k)

RECURSIVE DropUnpaired(_, _, _)
DropUnpaired(u, lo, hi) ==
    IF lo > hi THEN <<>>
    ELSE IF lo = hi THEN (IF UnitPaired(u, lo) THEN <<u[lo]>> ELSE <<>>)
    ELSE DropUnpaired(u, lo, (lo + hi) \div 2)
            \o DropUnpaired(u, (lo + hi) \div 2 + 1, hi)

\* b.decode("utf-16le", errors="ignore"): undecodable bytes are dropped.
Utf16Ignore(b) ==
    IF Utf16Ok(b) THEN Utf16Units(b) ELSE DropUnpaired(Utf16Units(b), 1, Len(b) \div 2)

\* txt.encode("utf-16le")
Utf16Encode(txt) ==
    [k \in 1..(2 * Len(txt)) |->
        IF k % 2 = 1 THEN txt[(k + 1) \div 2] % 256 ELSE txt[k \div 2] \div 256]

\* b.decode("utf-8") succeeds.  The modelled files hold no multi-byte UTF-8
\* sequence, so this is: every byte is ASCII.
Utf8Ok(b) == \A k \in 1..Len(b) : b[k] < 128

ReplacementChar == 65533

\* b.decode("utf-8", errors="replace")
Utf8Replace(b) == [k \in 1..Len(b) |-> IF b[k] < 128 THEN b[k] ELSE ReplacementChar]

NulThreshold == 16

\* read_text_any(path) on the file's bytes b.
read_text_any(b) ==
    IF MatchAt(b, <<255, 254>>, 0) /\ Utf16Ok(b) THEN Utf16Units(b)
    ELSE IF Count(b, 0) > Max(NulThreshold, Len(b) \div 10) /\ Utf16Ok(b)
         THEN Utf16Units(b)
    ELSE IF Utf8Ok(b) THEN b
    ELSE IF Utf16Ok(b) THEN Utf16Units(b)
    ELSE Utf8Replace(b)

\* str.strip(): without leading and trailing whitespace.
SpanOf(txt, keep) ==
    IF keep = {} THEN <<>> ELSE SubSeq(txt, SetMin(keep), SetMax(keep))

Strip(txt) == SpanOf(txt, {k \in 1..Len(txt) : ~IsSpace(txt[k])})

\* str.rstrip("\x00")
UpTo(txt, keep) == IF keep = {} THEN <<>> ELSE SubSeq(txt, 1, SetMax(keep))

RStripNul(txt) == UpTo(txt, {k \in 1..Len(txt) : txt[k] # 0})

----------------------------------------------------------------------------
(* JSON (Python's json module), for the documents the modelled files hold:  *)
(* arrays of non-negative integers with optional whitespace.                *)

IsDigit(c) == c >= 48 /\ c <= 57

\* The shape of a compact array: [ ] or [ n , n , ... ].
CompactArrayShape(c) ==
    /\ Len(c) >= 2
    /\ c[1] = LBRACK
    /\ c[Len(c)] = RBRACK
    /\ \A k \in 2..(Len(c) - 1) : IsDigit(c[k]) \/ c[k] = COMMA
    /\ \A k \in 2..(Len(c) - 1) :
          c[k] = COMMA => (IsDigit(c[k - 1]) /\ IsDigit(c[k + 1]))
    /\ \A k \in 2..(Len(c) - 2) :
          (c[k] = 48 /\ ~IsDigit(c[k - 1])) => ~IsDigit(c[k + 1])

\* json.loads(text) succeeds.
JsonLoads(text) ==
    /\ CompactArrayShape(StripWs(text))
    /\ \A i \in 1..Len(text) : \A j \in (i + 2)..Len(text) :
          ~(/\ IsDigit(text[i])
            /\ IsDigit(text[j])
            /\ \A k \in (i + 1)..(j - 1) : IsSpace(text[k]))

\* try_load_json(text): a leading BOM is tolerated.
SkipBom(text) == IF Len(text) > 0 /\ text[1] = BOM THEN Tail(text) ELSE text

try_load_json(text) == JsonLoads(SkipBom(text))

\* dump_json_compact(try_load_json(text)): no insignificant whitespace.
dump_json_compact(text) == StripWs(SkipBom(text))

\* json.dumps(json.loads(text), indent=2, ensure_ascii=False)
RECURSIVE IndentRange(_, _, _)
IndentRange(c, lo, hi) ==
    IF lo > hi THEN <<>>
    ELSE IF lo = hi
    THEN CASE c[lo] = LBRACK /\ Len(c) > 2 -> <<LBRACK, LF, SP, SP>>
           [] c[lo] = COMMA -> <<COMMA, LF, SP, SP>>
           [] c[lo] = RBRACK /\ Len(c) > 2 -> <<LF, RBRACK>>
           [] OTHER -> <<c[lo]>>
    ELSE IndentRange(c, lo, (lo + hi) \div 2)
            \o IndentRange(c, (lo + hi) \div 2 + 1, hi)

IndentAll(c) == IndentRange(c, 1, Len(c))

JsonDumpsIndent2(text) == IndentAll(StripWs(text))

----------------------------------------------------------------------------
(* core/extract.py: the scanners *)

H4SI == <<72, 52, 115, 73>>

FALLEN_MAGIC == <<70, 65, 76, 76, 69, 78>>

FALLEN_SENTINEL == <<70, 65, 76, 76, 69, 78, 0, 2>>

\* hashlib.sha1(b).hexdigest(), idealised: injective, never the empty string.
Sha1(b) == <<Len(b)>> \o b

\* _is_b64_region_byte(b): BASE64_ALLOWED or BASE64_WS
IsB64RegionByte(b) == B64Val(b) < 64 \/ b = EQ \/ b \in {SP, TAB, CR, LF}

MinStrippedLen == 16

\* A scanned segment: (offset, stored_len, bytes).
Segment(off, stored_len, bytes) ==
    [off |-> off, stored_len |-> stored_len, bytes |-> bytes]

\* The inner while loop of scan_blocks: the end of the run of region bytes.
FirstOr(stops, default) == IF stops = {} THEN default ELSE SetMin(stops)

RunEnd(data, off) ==
    FirstOr({j \in off..(Len(data) - 1) : ~IsB64RegionByte(data[j + 1])}, Len(data))

\* The end of scan_blocks's loop body: the segment is kept when its run has
\* at least 16 non-whitespace bytes.
KeptSegment(off, stored, stripped) ==
    IF Len(stripped) >= MinStrippedLen
    THEN <<Segment(off, Len(stored), stripped)>> ELSE <<>>

StoredSegment(off, stored) == KeptSegment(off, stored, StripWs(stored))

\* scan_blocks(data): one iteration per anchor found; the search resumes at
\* off + 4.
RECURSIVE ScanBlocksFrom(_, _)
ScanBlocksAt(data, off) ==
    IF off < 0 THEN <<>>
    ELSE StoredSegment(off, Slice(data, off, RunEnd(data, off)))
            \o ScanBlocksFrom(data, off + 4)

ScanBlocksFrom(data, pos) == ScanBlocksAt(data, Find(data, H4SI, pos))

scan_blocks(data) == ScanBlocksFrom(data, 0)

HeaderLen == 24

EntryLen == 16

TableLimit == 65536

\* A table entry accepted without comparing its end with the length of the
\* data.
TableEntryUnbounded(data, seg_len, payload_off) ==
    IF payload_off = 0 \/ seg_len = 0 \/ payload_off < 8
    THEN <<>>
    ELSE IF Slice(data, payload_off - 8, payload_off) = FALLEN_SENTINEL
    THEN <<[off |-> payload_off, stored_len |-> seg_len,
            bytes |-> Slice(data, payload_off, payload_off + seg_len)]>>
    ELSE <<>>

\* One table entry of scan_fallen_segments: its segment, when accepted.
TableEntry(data, seg_len, payload_off) ==
    IF \/ payload_off = 0 \/ seg_len = 0
       \/ payload_off + seg_len > Len(data) \/ payload_off < 8
    THEN <<>>
    ELSE IF Slice(data, payload_off - 8, payload_off) = FALLEN_SENTINEL
    THEN <<Segment(payload_off, seg_len,
                   Slice(data, payload_off, payload_off + seg_len))>>
    ELSE <<>>

\* The table loop of scan_fallen_segments: entries i..entry_count-1.
RECURSIVE TableSegsFrom(_, _, _, _)
TableSegsFrom(data, base_len, i, entry_count) ==
    IF i >= entry_count THEN <<>>
    ELSE TableEntry(data, U32(data, base_len + i * EntryLen + 8),
                    U32(data, base_len + i * EntryLen + 12))
            \o TableSegsFrom(data, base_len, i + 1, entry_count)

\* A table-driven parse that accepts any base length up to the limit.
TableOfAnyBase(data, base_len, entry_count) ==
    IF /\ base_len <= TableLimit
       /\ entry_count <= TableLimit
       /\ base_len + entry_count * EntryLen <= Len(data)
    THEN TableSegsFrom(data, base_len, 0, entry_count)
    ELSE <<>>

\* The table-driven parse of scan_fallen_segments; <<>> when it does not apply.
TableOf(data, base_len, entry_count) ==
    IF /\ HeaderLen <= base_len
       /\ base_len <= TableLimit
       /\ entry_count <= TableLimit
       /\ base_len + entry_count * EntryLen <= Len(data)
    THEN TableSegsFrom(data, base_len, 0, entry_count)
    ELSE <<>>

TableSegs(data) ==
    IF Len(data) < HeaderLen THEN <<>>
    ELSE TableOf(data, U32(data, 8), U32(data, 16))

\* The first loop of the fallback: the offsets of the sentinels, each search
\* resuming after the sentinel found.
RECURSIVE SentinelPositions(_, _)
SentinelAt(data, off) ==
    IF off < 0 THEN <<>>
    ELSE <<off>> \o SentinelPositions(data, off + Len(FALLEN_SENTINEL))

SentinelPositions(data, pos) == SentinelAt(data, Find(data, FALLEN_SENTINEL, pos))

\* The second loop of the fallback: from after each sentinel to the next one
\* or to the end of the data.
Between(data, start, end) == Segment(start, end - start, Slice(data, start, end))

SegsBetween(data, positions) ==
    [i \in 1..Len(positions) |->
        Between(data, positions[i] + Len(FALLEN_SENTINEL),
                IF i < Len(positions) THEN positions[i + 1] ELSE Len(data))]

SentinelSegs(data) == SegsBetween(data, SentinelPositions(data, 0))

\* The end of the table-driven parse: "if segs: return segs".
TableOrSentinels(data, segs) == IF segs # <<>> THEN segs ELSE SentinelSegs(data)

\* scan_fallen_segments(data)
scan_fallen_segments(data) ==
    IF ~MatchAt(data, FALLEN_MAGIC, 0) THEN <<>>
    ELSE TableOrSentinels(data, TableSegs(data))

\* The embedded tail markers FALLEN 00 00, FALLEN 00 01, FALLEN 00 03.
MarkerCandidates ==
    {FALLEN_MAGIC \o <<0, 0>>, FALLEN_MAGIC \o <<0, 1>>, FALLEN_MAGIC \o <<0, 3>>}

\* marker_pos of _fallen_trim_json_text: the earliest marker, -1 without one.
EarliestOf(found) == IF found = {} THEN -1 ELSE SetMin(found)

MarkerPos(payload_bytes) ==
    EarliestOf({Find(payload_bytes, mk, 0) : mk \in MarkerCandidates} \ {-1})

\* A return that leaves prefix_len as computed.
TrimResultUnrounded(txt, prefix_len) == [txt |-> txt, prefix_len |-> prefix_len]

\* Both returns of _fallen_trim_json_text end by making prefix_len even.
TrimResult(txt, prefix_len) ==
    [txt |-> txt,
     prefix_len |-> IF prefix_len % 2 = 1 THEN prefix_len - 1 ELSE prefix_len]

\* The branch of _fallen_trim_json_text with a JSON terminator at endj.
ClampToMarker(marker_pos, prefix_len) ==
    IF marker_pos > 0 /\ marker_pos < prefix_len THEN marker_pos ELSE prefix_len

\* _fallen_trim_json_text from "if endj == -1" on.
TrimAtEnd(payload_bytes, txt_all, marker_pos, endj) ==
    IF endj = -1
    THEN TrimResult(Strip(RStripNul(txt_all)), IF marker_pos > 0 THEN marker_pos ELSE 0)
    ELSE TrimResult(Strip(Slice(txt_all, 0, endj + 1)),
                    ClampToMarker(marker_pos,
                                  Min(Len(payload_bytes), (endj + 1) * 2)))

TrimDecoded(payload_bytes, txt_all) ==
    TrimAtEnd(payload_bytes, txt_all, MarkerPos(payload_bytes),
              Max(RFind(txt_all, RBRACE), RFind(txt_all, RBRACK)))

\* _fallen_trim_json_text(payload_bytes): (trimmed text, payload_prefix_len)
fallen_trim_json_text(payload_bytes) ==
    TrimDecoded(payload_bytes, Utf16Ignore(payload_bytes))

----------------------------------------------------------------------------
(* core/model.py and core/extract.py: extract *)

\* A path below the extracted directory: blocks/block_<idx>_off_<off>.<ext>
\* or orig_regions/orig_<idx>_off_<off>.bin.
BlockName(idx, off, ext) == <<"blocks", idx, off, ext>>

OrigName(idx, off) == <<"orig_regions", idx, off, "bin">>

\* BlockInfo(...) as extract fills it in.
BlockInfo(idx, off, stored_len, mtime, ext, kind, note, file_bytes, region_bytes, prefix_len) ==
    [index |-> idx, offset |-> off, stored_len |-> stored_len,
     gzip_mtime |-> mtime, out_name |-> BlockName(idx, off, ext), kind |-> kind,
     note |-> note, file_sha1 |-> Sha1(file_bytes),
     region_sha1 |-> Sha1(region_bytes), orig_region |-> OrigName(idx, off),
     payload_prefix_len |-> prefix_len]

\* The fields of BlockInfo without a default, and the defaults of the others.
RequiredFields == {"index", "offset", "stored_len", "gzip_mtime", "out_name", "kind"}

OptionalDefaults ==
    [note |-> "", file_sha1 |-> <<>>, region_sha1 |-> <<>>, orig_region |-> <<>>,
     payload_prefix_len |-> 0]

\* BlockInfo(**b) on a block record b of manifest.json: TypeError for a
\* missing field without default and for a keyword that is no field.
LoadRaises(b) ==
    \/ ~(RequiredFields \subseteq DOMAIN b)
    \/ ~(DOMAIN b \subseteq RequiredFields \cup DOMAIN OptionalDefaults)

LoadBlock(b) ==
    [f \in RequiredFields \cup DOMAIN OptionalDefaults |->
        IF f \in DOMAIN b THEN b[f] ELSE OptionalDefaults[f]]

\* blocks = [BlockInfo(**b) for b in manifest.get("blocks", [])] raises.
BlocksRaise(m) == \E k \in 1..Len(m.blocks) : LoadRaises(m.blocks[k])

\* f with path p holding bytes b (a write creates or replaces the file).
WriteFile(f, p, b) == [q \in DOMAIN f \cup {p} |-> IF q = p THEN b ELSE f[q]]

\* The state of extract's loops: the BlockInfo list, the next index, the files
\* written so far, and whether an exception left the function.
ExtractAcc(infos, idx, files, raised) ==
    [infos |-> infos, idx |-> idx, files |-> files, raised |-> raised]

\* The end of both loop bodies: the original region and the block file are
\* written, the BlockInfo is appended and idx advances.
AddBlock(acc, info, file_bytes, region_bytes) ==
    ExtractAcc(Append(acc.infos, info), acc.idx + 1,
               WriteFile(WriteFile(acc.files, info.orig_region, region_bytes),
                         info.out_name, file_bytes),
               FALSE)

\* The h4si loop body from "kind = ..." on: a payload that decodes as UTF-16LE
\* is a text block (.json when it parses), any other a binary block.
H4siText(acc, seg, mtime, txt, region_bytes) ==
    AddBlock(acc,
             BlockInfo(acc.idx, seg.off, seg.stored_len, mtime,
                       IF JsonLoads(txt) THEN "json" ELSE "txt", "text", "",
                       Utf16Encode(txt), region_bytes, 0),
             Utf16Encode(txt), region_bytes)

H4siBinary(acc, seg, mtime, payload, region_bytes) ==
    AddBlock(acc,
             BlockInfo(acc.idx, seg.off, seg.stored_len, mtime, "bin", "binary",
                       "", payload, region_bytes, 0),
             payload, region_bytes)

H4siWrite(acc, seg, mtime, payload, region_bytes) ==
    IF Utf16Ok(payload)
    THEN H4siText(acc, seg, mtime, Utf16Units(payload), region_bytes)
    ELSE H4siBinary(acc, seg, mtime, payload, region_bytes)

\* The h4si loop body after gunzip: an exception leaves extract, an empty
\* payload skips the segment.
H4siPayload(data, acc, seg, mtime, payload) ==
    IF payload.raises THEN [acc EXCEPT !.raised = TRUE]
    ELSE IF payload.out = <<>> THEN acc
    ELSE H4siWrite(acc, seg, mtime, payload.out,
                   Slice(data, seg.off, seg.off + seg.stored_len))

\* A loop that numbers the blocks by segment: a skipped segment uses up an
\* index.
H4siDecodedCounting(data, acc, seg, gz) ==
    IF ~gz.ok THEN [acc EXCEPT !.idx = @ + 1]
    ELSE H4siPayload(data, acc, seg, gzip_mtime(gz.raw), gunzip(gz.raw))

\* The h4si loop body after b64_decode_gz: None skips the segment.
H4siDecoded(data, acc, seg, gz) ==
    IF ~gz.ok THEN acc
    ELSE H4siPayload(data, acc, seg, gzip_mtime(gz.raw), gunzip(gz.raw))

\* One iteration of the h4si loop of extract, for the scanned segment seg.
H4siBody(data, acc, seg) == H4siDecoded(data, acc, seg, b64_decode_gz(seg.bytes))

\* The FALLEN loop body after the trim: the text is pretty-printed when it
\* parses as JSON.
FallenWrite(acc, seg, prefix_len, ext, txt) ==
    AddBlock(acc,
             BlockInfo(acc.idx, seg.off, seg.stored_len, 0, ext, "fallen_text",
                       "fallen_segment", Utf16Encode(txt), seg.bytes, prefix_len),
             Utf16Encode(txt), seg.bytes)

FallenTrimmed(acc, seg, trimmed) ==
    IF JsonLoads(trimmed.txt)
    THEN FallenWrite(acc, seg, trimmed.prefix_len, "json", JsonDumpsIndent2(trimmed.txt))
    ELSE FallenWrite(acc, seg, trimmed.prefix_len, "txt", trimmed.txt)

\* One iteration of the FALLEN loop of extract.
FallenBody(data, acc, seg) == FallenTrimmed(acc, seg, fallen_trim_json_text(seg.bytes))

\* The loop of extract over the scanned segments, from segment k on; an
\* exception ends it.
RECURSIVE ExtractLoop(_, _, _, _, _)
ExtractLoop(data, container, segs, k, acc) ==
    IF k > Len(segs) \/ acc.raised THEN acc
    ELSE ExtractLoop(data, container, segs, k + 1,
                     IF container = "fallen" THEN FallenBody(data, acc, segs[k])
                     ELSE H4siBody(data, acc, segs[k]))

\* The container format extract detects.
ContainerOf(data) == IF MatchAt(data, FALLEN_MAGIC, 0) THEN "fallen" ELSE "h4si"

\* The segments extract iterates over.
ScanOf(data) ==
    IF ContainerOf(data) = "fallen" THEN scan_fallen_segments(data)
    ELSE scan_blocks(data)

\* An extraction that leaves the directory's files in place.
NotWiped(f) == f

\* shutil.rmtree of blocks/ and orig_regions/: the files that remain.
Wiped(f) ==
    [p \in {q \in DOMAIN f : q[1] \notin {"blocks", "orig_regions"}} |-> f[p]]

\* An extraction that numbers its blocks after the block files it finds.
ExtractRunNumberedAfter(data, f) ==
    ExtractLoop(data, ContainerOf(data), ScanOf(data), 1,
                ExtractAcc(<<>>, Cardinality({q \in DOMAIN f : q[1] = "blocks"}),
                           Wiped(f), FALSE))

\* extract(memory_dat, out_dir) on the extracted directory's files f: blocks/
\* and orig_regions/ are wiped and every segment's files are written.
ExtractRun(data, f) ==
    ExtractLoop(data, ContainerOf(data), ScanOf(data), 1,
                ExtractAcc(<<>>, 0, Wiped(f), FALSE))

NoManifest ==
    [present |-> FALSE, file_size |-> 0, base_sig |-> <<>>, container |-> "h4si",
     blocks |-> <<>>]

\* The manifest extract writes last.
ManifestOf(data, infos) ==
    [present |-> TRUE, file_size |-> Len(data), base_sig |-> Sha1(data),
     container |-> ContainerOf(data), blocks |-> infos]

----------------------------------------------------------------------------
(* core/repack.py *)

\* p.exists() and p.read_bytes() for a path of the extracted directory: f
\* maps the existing paths to their bytes, and reading a path in bad raises
\* OSError (a directory in the file's place, no permission).
Exists(f, p) == p \in DOMAIN f

ReadRaises(f, bad, p) == p \notin DOMAIN f \/ p \in bad

\* _is_untouched comparing the file's digest with the wrong manifest field,
\* the region's digest.
IsUntouchedByRegion(bi, f, bad) ==
    /\ Exists(f, bi.out_name)
    /\ ~ReadRaises(f, bad, bi.out_name)
    /\ Sha1(f[bi.out_name]) = bi.region_sha1

\* _is_untouched(bi, extracted_dir)
is_untouched(bi, f, bad) ==
    IF bi.file_sha1 = <<>> THEN FALSE
    ELSE IF ~Exists(f, bi.out_name) THEN FALSE
    ELSE IF ReadRaises(f, bad, bi.out_name) THEN FALSE
    ELSE Sha1(f[bi.out_name]) = bi.file_sha1

\* _validate_base_region(bi, base_data) raises ValueError.
RegionMismatch(bi, base_data) ==
    IF bi.region_sha1 = <<>> THEN FALSE
    ELSE Sha1(Slice(base_data, bi.offset, bi.offset + bi.stored_len))
            # bi.region_sha1

\* The text both builders encode: read_text_any, then minified when it
\* parses as JSON.
Minified(txt) == IF try_load_json(txt) THEN dump_json_compact(txt) ELSE txt

MinifiedText(b) == Minified(read_text_any(b))

\* _build_new_b64_for_block(bi, p) on the file's bytes b.
build_new_b64_for_block(bi, b) ==
    IF bi.kind = "raw_gz" THEN b64_encode(b)
    ELSE IF bi.kind = "binary" THEN b64_encode(gzip_compress(b, bi.gzip_mtime))
    ELSE b64_encode(gzip_compress(Utf16Encode(MinifiedText(b)), bi.gzip_mtime))

\* _build_new_bytes_for_fallen_block(bi, p) on the file's bytes b.
build_new_bytes_for_fallen_block(bi, b) == Utf16Encode(MinifiedText(b))

\* _fallen_capacity(bi)
fallen_capacity(bi) ==
    IF bi.payload_prefix_len # 0 THEN bi.payload_prefix_len ELSE bi.stored_len

\* The branch condition of both loops: container == "fallen" or
\* bi.kind == "fallen_text".
IsFallenBlock(container, bi) == container = "fallen" \/ bi.kind = "fallen_text"

\* The bytes a block's file re-encodes to, and the capacity they must fit.
NewPayload(container, bi, b) ==
    IF IsFallenBlock(container, bi) THEN build_new_bytes_for_fallen_block(bi, b)
    ELSE build_new_b64_for_block(bi, b)

Capacity(container, bi) ==
    IF IsFallenBlock(container, bi) THEN fallen_capacity(bi) ELSE bi.stored_len

PreflightItem(bi, new_len, headroom, status, note) ==
    [index |-> bi.index, offset |-> bi.offset, stored_len |-> bi.stored_len,
     new_len |-> new_len, headroom |-> headroom, out_name |-> bi.out_name,
     kind |-> bi.kind, status |-> status, note |-> note]

\* The status test of repack_preflight off by one: OK only with headroom to
\* spare.
PreflightSizedStrict(bi, new_len, headroom) ==
    PreflightItem(bi, new_len, headroom, IF headroom > 0 THEN "OK" ELSE "FAIL", "")

\* The try block of repack_preflight's loop: headroom = cap - new_len,
\* status OK when it is not negative.
PreflightSized(bi, new_len, headroom) ==
    PreflightItem(bi, new_len, headroom, IF headroom >= 0 THEN "OK" ELSE "FAIL", "")

PreflightBuilt(bi, new_len, cap) == PreflightSized(bi, new_len, cap - new_len)

\* The body of repack_preflight's loop after the region check: the item
\* appended for block bi.
PreflightClassify(container, bi, f, bad) ==
    IF ~Exists(f, bi.out_name)
    THEN PreflightItem(bi, 0, bi.stored_len, "SKIP", "missing extracted file")
    ELSE IF is_untouched(bi, f, bad)
    THEN PreflightItem(bi, 0, bi.stored_len, "SKIP", "unchanged")
    ELSE IF ReadRaises(f, bad, bi.out_name)
    THEN PreflightItem(bi, 0, bi.stored_len, "ERROR", "OSError")
    ELSE PreflightBuilt(bi, Len(NewPayload(container, bi, f[bi.out_name])),
                        Capacity(container, bi))

\* out[lo:lo] = val: the bytes are inserted and nothing is replaced.
SliceInsert(out, lo, hi, val) == Slice(out, 0, lo) \o val \o Slice(out, lo, Len(out))

\* out[lo:hi] = val on a bytearray.
SliceAssign(out, lo, hi, val) ==
    Slice(out, 0, lo) \o val \o Slice(out, Max(lo, hi), Len(out))

\* The padding unit of the FALLEN branch, b"\\x00": the four bytes \ x 0 0.
FallenPad == <<BACKSLASH, 120, 48, 48>>

\* The FALLEN branch without its length correction.
FallenInexact(bi, final) == final

\* "Safety: ensure exact region length": final is cut or padded to stored_len.
FallenExact(bi, final) ==
    IF Len(final) # bi.stored_len
    THEN Slice(final, 0, bi.stored_len)
            \o Repeat(FallenPad, Max(0, bi.stored_len - Len(final)))
    ELSE final

\* final = payload + padding units + tail
FallenJoined(bi, cap, tail, payload) ==
    FallenExact(bi, payload \o Repeat(FallenPad, cap - Len(payload)) \o tail)

\* The region the FALLEN branch of repack writes for a payload that fits.
FallenFinal(bi, base_data, payload) ==
    FallenJoined(bi, fallen_capacity(bi),
                 Slice(base_data, bi.offset + fallen_capacity(bi),
                       bi.offset + bi.stored_len),
                 payload)

\* The h4si branch padding with NUL bytes where the code pads with spaces.
FixedPaddedNul(bi, new_b64) == new_b64 \o Repeat(<<0>>, bi.stored_len - Len(new_b64))

\* The region the h4si branch of repack writes for a payload that fits.
FixedPadded(bi, new_b64) == new_b64 \o Repeat(<<SP>>, bi.stored_len - Len(new_b64))

\* A line of the rebuild report: its tag, the block, and the "wrote" length
\* of an [OK] line.
ReportLine(status, bi, wrote) == [status |-> status, index |-> bi.index, wrote |-> wrote]

\* An oversized block reported as skipped: no failure counted, no warning.
FailedAsSkipped(st, bi) ==
    [st EXCEPT !.skipped = @ + 1,
               !.report_lines = Append(@, ReportLine("SKIP", bi, 0))]

\* A skipped block counted but left out of the report.
SkippedSilently(st, bi) == [st EXCEPT !.skipped = @ + 1]

\* The three outcomes of one iteration of repack's loop, on its locals st.
Skipped(st, bi) ==
    [st EXCEPT !.skipped = @ + 1,
               !.report_lines = Append(@, ReportLine("SKIP", bi, 0))]

Failed(st, bi) ==
    [st EXCEPT !.fail = @ + 1,
               !.warnings = Append(@, bi.index),
               !.report_lines = Append(@, ReportLine("FAIL", bi, 0))]

Written(st, bi, new_len, region) ==
    [st EXCEPT !.out = SliceAssign(@, bi.offset, bi.offset + bi.stored_len, region),
               !.ok = @ + 1,
               !.report_lines = Append(@, ReportLine("OK", bi, new_len))]

\* The capacity test of repack off by one: an exact fit is rejected.
RepackBuiltStrict(container, bi, base_data, st, payload) ==
    IF Len(payload) >= Capacity(container, bi) THEN Failed(st, bi)
    ELSE IF IsFallenBlock(container, bi)
    THEN Written(st, bi, Len(payload), FallenFinal(bi, base_data, payload))
    ELSE Written(st, bi, Len(payload), FixedPadded(bi, payload))

\* The try block of repack's loop once the payload is built.
RepackBuilt(container, bi, base_data, st, payload) ==
    IF Len(payload) > Capacity(container, bi) THEN Failed(st, bi)
    ELSE IF IsFallenBlock(container, bi)
    THEN Written(st, bi, Len(payload), FallenFinal(bi, base_data, payload))
    ELSE Written(st, bi, Len(payload), FixedPadded(bi, payload))

\* The body of repack's loop after the region check, for block bi.
RepackBody(container, bi, base_data, f, bad, st) ==
    IF ~Exists(f, bi.out_name) THEN Skipped(st, bi)
    ELSE IF is_untouched(bi, f, bad) THEN Skipped(st, bi)
    ELSE IF ReadRaises(f, bad, bi.out_name) THEN Failed(st, bi)
    ELSE RepackBuilt(container, bi, base_data, st,
                     NewPayload(container, bi, f[bi.out_name]))

----------------------------------------------------------------------------
(* The inputs: base files and edits of block files *)

\* The largest array an edited block file holds.
MaxElems == 10

\* "[1,1,...,1]" with n elements; with spaced, "[1, 1, ..., 1]".
ArrElems(n, sep) ==
    [k \in 1..(IF n = 0 THEN 0 ELSE (Len(sep) + 1) * (n - 1) + 1) |->
        IF (k - 1) % (Len(sep) + 1) = 0 THEN 49
        ELSE sep[(k - 1) % (Len(sep) + 1)]]

ArrText(n, spaced) ==
    <<LBRACK>> \o ArrElems(n, IF spaced THEN <<COMMA, SP>> ELSE <<COMMA>>)
        \o <<RBRACK>>

\* A stored h4si region: base64(gzip(payload)) followed by pad spaces.
StoredRegion(payload, mtime, pad) ==
    b64_encode(gzip_compress(payload, mtime)) \o Repeat(<<SP>>, pad)

\* An h4si file: a text block and a binary block, apart.
FileTwoBlocks ==
    <<1, 2>> \o StoredRegion(Utf16Encode(ArrText(2, TRUE)), 7, 36)
        \o <<0>> \o StoredRegion(<<5, 6, 7>>, 0, 12) \o <<0, 3>>

\* An h4si file: two base64 strings run together (the first one's gzip
\* member has a length divisible by 3, so it ends without padding), then
\* spaces.
FileConcatenated ==
    <<1, 2>> \o StoredRegion(Utf16Encode(ArrText(0, FALSE)), 0, 0)
        \o StoredRegion(Utf16Encode(ArrText(8, FALSE)), 0, 8) \o <<0, 3>>

\* The 24-byte header of a FALLEN file.
FallenHeader(base_len, entry_count) ==
    FALLEN_MAGIC \o <<0, 0>> \o PackU32(base_len) \o PackU32(1)
        \o PackU32(entry_count) \o PackU32(0)

\* Two FALLEN payloads: JSON followed by an opaque tail, and text with no
\* JSON terminator followed by NUL bytes.
PayloadJsonTail == Utf16Encode(ArrText(9, FALSE)) \o <<7, 7, 7, 7>>

PayloadPlain == Utf16Encode(<<97, 98>>) \o Repeat(<<0>>, 36)

\* A FALLEN file without a usable header table (base length 0).
FileFallenSentinels ==
    FallenHeader(0, 0) \o FALLEN_SENTINEL \o PayloadJsonTail
        \o FALLEN_SENTINEL \o PayloadPlain

\* A FALLEN file with a header table of three entries (id, type, length,
\* payload offset): the first entry's length stops short of the next sentinel,
\* the second ends with the file, and the third names the second's payload
\* with a length one byte past the end of the file.
FileFallenTable ==
    FallenHeader(HeaderLen, 3)
        \o PackU32(1) \o PackU32(2) \o PackU32(Len(PayloadJsonTail) - 2)
        \o PackU32(HeaderLen + 3 * EntryLen + 8)
        \o PackU32(2) \o PackU32(2) \o PackU32(Len(PayloadPlain))
        \o PackU32(HeaderLen + 3 * EntryLen + 8 + Len(PayloadJsonTail) + 8)
        \o PackU32(3) \o PackU32(2) \o PackU32(Len(PayloadPlain) + 1)
        \o PackU32(HeaderLen + 3 * EntryLen + 8 + Len(PayloadJsonTail) + 8)
        \o FALLEN_SENTINEL \o PayloadJsonTail \o FALLEN_SENTINEL \o PayloadPlain

\* An h4si file with four runs anchored by H4sI: a text block, a run of 17
\* base64 characters (no base64 string has 4k + 1 characters), the base64 of a
\* gzip member with an empty payload, and a binary block.
FileSkippedSegments ==
    <<1>> \o StoredRegion(Utf16Encode(ArrText(1, FALSE)), 0, 4)
        \o <<0>> \o H4SI \o Repeat(<<65>>, 13)
        \o <<0>> \o StoredRegion(<<>>, 0, 0)
        \o <<0>> \o StoredRegion(<<5, 6, 7>>, 0, 4) \o <<2>>

\* A gzip member whose stored CRC is off by one in its lowest byte.
CorruptCrc(gz) == [gz EXCEPT ![Len(gz) - 7] = (@ + 1) % 256]

\* An h4si file whose second of three runs holds a gzip member with a wrong
\* CRC.
FileCorruptGzip ==
    <<1>> \o StoredRegion(Utf16Encode(ArrText(1, FALSE)), 0, 0)
        \o <<0>> \o b64_encode(CorruptCrc(gzip_compress(Utf16Encode(ArrText(1, FALSE)), 0)))
        \o <<0>> \o StoredRegion(<<5, 6, 7>>, 0, 0) \o <<2>>

BaseFiles ==
    {FileTwoBlocks, FileConcatenated, FileFallenSentinels, FileFallenTable,
     FileSkippedSegments, FileCorruptGzip}

\* The bound on the extractions into one directory.
MaxExtractions == 2

\* What an edit leaves in a block file: a JSON array of any modelled size, as
\* UTF-16LE, compact or spaced; or a few raw bytes.
EditSizes == {0, 3, 8, 9, MaxElems}

EditContents ==
    {Utf16Encode(ArrText(n, sp)) : n \in EditSizes, sp \in BOOLEAN} \cup {<<9, 9, 9>>}

\* The offsets at which the base file is changed after extraction.
DriftOffsets(data) == {0, Len(data) \div 2, Len(data) - 1}

----------------------------------------------------------------------------
(* The state machine *)

VARIABLES
    base,           \* the bytes of the base file (memory.dat)
    base_extracted, \* the bytes of the base file when extract read it
    fs,             \* the extracted directory: path -> bytes
    unreadable,     \* the paths whose read raises
    manifest,       \* manifest.json
    pc,             \* "start", "edit", "pf", "pfdone", "rp", "done", "raised"
    error,          \* the exception that ended an operation, "" for none
    pf,             \* repack_preflight's locals: the loop index and items
    pf_report,      \* whether repack_preflight_report.txt is written
    rp,             \* repack's locals
    out_file,       \* the file at out_path: [written, bytes]
    report_file,    \* <out_path>.rebuild_report.txt: [written, lines, ...]
    edited,         \* history: a block file was changed since extract wrote it
    extractions,    \* history: the number of extractions into the directory
    scan            \* the scanner's locals: [pos, blocks, iters, done]

vars == <<base, base_extracted, fs, unreadable, manifest, pc, error, pf, pf_report,
          rp, out_file, report_file, edited, extractions, scan>>

NoPreflight == [i |-> 0, items |-> <<>>]

NoRepack ==
    [i |-> 0, out |-> <<>>, ok |-> 0, fail |-> 0, skipped |-> 0, warnings |-> <<>>,
     report_lines |-> <<>>]

NoScan == [pos |-> 0, blocks |-> <<>>, iters |-> 0, done |-> FALSE]

NoFile == [written |-> FALSE, bytes |-> <<>>]

NoReport == [written |-> FALSE, lines |-> <<>>, ok |-> 0, skipped |-> 0, fail |-> 0]

Init ==
    /\ base \in BaseFiles
    /\ base_extracted = <<>>
    /\ fs = <<>>
    /\ unreadable = {}
    /\ manifest = NoManifest
    /\ pc = "start"
    /\ error = ""
    /\ pf = NoPreflight
    /\ pf_report = FALSE
    /\ rp = NoRepack
    /\ out_file = NoFile
    /\ report_file = NoReport
    /\ edited = FALSE
    /\ extractions = 0
    /\ scan = NoScan

\* The end of extract: the files are on disk; the manifest is written unless
\* an exception left the loop.
ExtractEnd(data, run) ==
    /\ fs' = run.files
    /\ manifest' = IF run.raised THEN manifest ELSE ManifestOf(data, run.infos)
    /\ pc' = IF run.raised THEN "raised" ELSE "edit"
    /\ error' = IF run.raised THEN "zlib.error" ELSE ""

\* extract(memory_dat, out_dir)
Extract ==
    /\ pc = "start"
    /\ ExtractEnd(base, ExtractRun(base, fs))
    /\ base_extracted' = base
    /\ unreadable' = {}
    /\ edited' = FALSE
    /\ extractions' = 1
    /\ UNCHANGED <<base, pf, pf_report, rp, out_file, report_file, scan>>

\* extract(memory_dat, out_dir) once more, of any base file, into the
\* directory an earlier extraction filled and the user may have edited.  To
\* keep the state space small it starts only while the base file is still the
\* extracted one and no block file is unreadable, and the extractions into one
\* directory are at most MaxExtractions.
ReExtract ==
    /\ pc = "edit"
    /\ base = base_extracted
    /\ unreadable = {}
    /\ extractions < MaxExtractions
    /\ extractions' = extractions + 1
    /\ \E data \in BaseFiles :
          /\ base' = data
          /\ base_extracted' = data
          /\ ExtractEnd(data, ExtractRun(data, fs))
    /\ unreadable' = {}
    /\ edited' = FALSE
    /\ UNCHANGED <<pf, pf_report, rp, out_file, report_file, scan>>

BlockNames == {manifest.blocks[k].out_name : k \in 1..Len(manifest.blocks)}

\* The user replaces the content of a block file.
EditBlock ==
    /\ pc = "edit"
    /\ \E p \in BlockNames : \E b \in EditContents :
          /\ fs' = WriteFile(fs, p, b)
          /\ unreadable' = unreadable \ {p}
    /\ edited' = TRUE
    /\ UNCHANGED <<base, base_extracted, manifest, pc, error, pf, pf_report, rp,
                   out_file, report_file,
                   extractions, scan>>

\* The user deletes a block file.
DeleteBlock ==
    /\ pc = "edit"
    /\ \E p \in BlockNames \cap DOMAIN fs :
          /\ fs' = [q \in DOMAIN fs \ {p} |-> fs[q]]
          /\ unreadable' = unreadable \ {p}
    /\ edited' = TRUE
    /\ UNCHANGED <<base, base_extracted, manifest, pc, error, pf, pf_report, rp,
                   out_file, report_file,
                   extractions, scan>>

\* A block file becomes unreadable (it exists, reading it raises).
MakeUnreadable ==
    /\ pc = "edit"
    /\ \E p \in BlockNames \cap DOMAIN fs : unreadable' = unreadable \cup {p}
    /\ edited' = TRUE
    /\ UNCHANGED <<base, base_extracted, fs, manifest, pc, error, pf, pf_report, rp,
                   out_file, report_file,
                   extractions, scan>>

\* The base file changes in one byte after extraction.
DriftBase ==
    /\ pc = "edit"
    /\ base = base_extracted
    /\ \E off \in DriftOffsets(base) :
          base' = [base EXCEPT ![off + 1] = (@ + 1) % 256]
    /\ UNCHANGED <<base_extracted, fs, unreadable, manifest, pc, error, pf,
                   pf_report, rp, out_file, report_file,
                   edited,
                   extractions, scan>>

\* The drift guard comparing file sizes where the code compares digests.
SizeMismatch(m, base_data) == m.file_size # Len(base_data)

\* manifest.get("base_sig") and manifest["base_sig"] != base_sig
SignatureMismatch(m, base_data) == m.base_sig # <<>> /\ m.base_sig # Sha1(base_data)

\* repack_preflight up to its loop: the manifest is read and its block
\* records are loaded, the base file is read and the signature is compared.
PreflightStart ==
    /\ pc = "edit"
    /\ manifest.present
    /\ IF BlocksRaise(manifest)
       THEN /\ pc' = "raised"
            /\ error' = "TypeError"
            /\ pf' = pf
       ELSE IF SignatureMismatch(manifest, base)
       THEN /\ pc' = "raised"
            /\ error' = "signature mismatch"
            /\ pf' = pf
       ELSE /\ pc' = "pf"
            /\ error' = ""
            /\ pf' = NoPreflight
    /\ UNCHANGED <<base, base_extracted, fs, unreadable, manifest, pf_report, rp,
                   out_file, report_file,
                   edited,
                   extractions, scan>>

\* One iteration of repack_preflight's loop, for block bi.
PreflightStep(bi) ==
    IF RegionMismatch(bi, base)
    THEN /\ pc' = "raised"
         /\ error' = "region mismatch"
         /\ pf' = pf
    ELSE /\ pc' = pc
         /\ error' = error
         /\ pf' = [i |-> pf.i + 1,
                   items |-> Append(pf.items,
                                    PreflightClassify(manifest.container, bi, fs,
                                                      unreadable))]

PreflightBlock ==
    /\ pc = "pf"
    /\ pf.i < Len(manifest.blocks)
    /\ PreflightStep(LoadBlock(manifest.blocks[pf.i + 1]))
    /\ UNCHANGED <<base, base_extracted, fs, unreadable, manifest, pf_report, rp,
                   out_file, report_file,
                   edited,
                   extractions, scan>>

\* repack_preflight after its loop: the report is written, the items returned.
PreflightFinish ==
    /\ pc = "pf"
    /\ pf.i = Len(manifest.blocks)
    /\ pf_report' = TRUE
    /\ pc' = "pfdone"
    /\ UNCHANGED <<base, base_extracted, fs, unreadable, manifest, error, pf, rp,
                   out_file, report_file,
                   edited,
                   extractions, scan>>

\* repack up to its loop, which begins as repack_preflight does.
RepackStart ==
    /\ pc \in {"edit", "pfdone"}
    /\ manifest.present
    /\ IF BlocksRaise(manifest)
       THEN /\ pc' = "raised"
            /\ error' = "TypeError"
            /\ rp' = rp
       ELSE IF SignatureMismatch(manifest, base)
       THEN /\ pc' = "raised"
            /\ error' = "signature mismatch"
            /\ rp' = rp
       ELSE /\ pc' = "rp"
            /\ error' = ""
            /\ rp' = [NoRepack EXCEPT !.out = base]
    /\ UNCHANGED <<base, base_extracted, fs, unreadable, manifest, pf, pf_report,
                   out_file, report_file,
                   edited,
                   extractions, scan>>

\* One iteration of repack's loop, for block bi.
RepackStep(bi) ==
    IF RegionMismatch(bi, base)
    THEN /\ pc' = "raised"
         /\ error' = "region mismatch"
         /\ rp' = rp
    ELSE /\ pc' = pc
         /\ error' = error
         /\ rp' = [RepackBody(manifest.container, bi, base, fs, unreadable, rp)
                      EXCEPT !.i = @ + 1]

RepackBlock ==
    /\ pc = "rp"
    /\ rp.i < Len(manifest.blocks)
    /\ RepackStep(LoadBlock(manifest.blocks[rp.i + 1]))
    /\ UNCHANGED <<base, base_extracted, fs, unreadable, manifest, pf, pf_report,
                   out_file, report_file,
                   edited,
                   extractions, scan>>

\* repack after its loop: the output file and the rebuild report are written.
RepackFinish ==
    /\ pc = "rp"
    /\ rp.i = Len(manifest.blocks)
    /\ out_file' = [written |-> TRUE, bytes |-> rp.out]
    /\ report_file' = [written |-> TRUE, lines |-> rp.report_lines, ok |-> rp.ok,
                       skipped |-> rp.skipped, fail |-> rp.fail]
    /\ pc' = "done"
    /\ UNCHANGED <<base, base_extracted, fs, unreadable, manifest, error, pf,
                   pf_report, rp,
                   edited,
                   extractions, scan>>

Next ==
    \/ Extract
    \/ ReExtract
    \/ EditBlock
    \/ DeleteBlock
    \/ MakeUnreadable
    \/ DriftBase
    \/ PreflightStart
    \/ PreflightBlock
    \/ PreflightFinish
    \/ RepackStart
    \/ RepackBlock
    \/ RepackFinish

Spec == Init /\ [][Next]_vars

----------------------------------------------------------------------------
(* Manifests of other versions of the tool: block records that lack fields
   with defaults, or carry a field BlockInfo does not have. *)

\* The sets of optional fields another version leaves out: each one alone,
\* and all of them.
DroppedSets ==
    {{f} : f \in DOMAIN OptionalDefaults} \cup {DOMAIN OptionalDefaults}

Without(b, F) == [f \in DOMAIN b \ F |-> b[f]]

With(b, f, v) == [g \in DOMAIN b \cup {f} |-> IF g = f THEN v ELSE b[g]]

\* manifest.json is replaced by one whose block records lack the fields F.
DropOptionalFields ==
    /\ pc = "edit"
    /\ manifest.blocks # <<>>
    /\ \E F \in DroppedSets :
          /\ F \subseteq DOMAIN manifest.blocks[1]
          /\ manifest' = [manifest EXCEPT
                            !.blocks = [k \in DOMAIN @ |-> Without(@[k], F)]]
    /\ UNCHANGED <<base, base_extracted, fs, unreadable, pc, error, pf, pf_report,
                   rp, out_file, report_file, edited, extractions, scan>>

\* manifest.json is replaced by one whose block records carry a field this
\* version does not know.
AddUnknownField ==
    /\ pc = "edit"
    /\ manifest.blocks # <<>>
    /\ "extra" \notin DOMAIN manifest.blocks[1]
    /\ manifest' = [manifest EXCEPT
                      !.blocks = [k \in DOMAIN @ |-> With(@[k], "extra", 0)]]
    /\ UNCHANGED <<base, base_extracted, fs, unreadable, pc, error, pf, pf_report,
                   rp, out_file, report_file, edited, extractions, scan>>

SchemaFiles == {FileTwoBlocks, FileFallenSentinels}

SchemaInit == Init /\ base \in SchemaFiles

SchemaNext ==
    \/ Extract
    \/ DropOptionalFields
    \/ AddUnknownField
    \/ EditBlock
    \/ PreflightStart
    \/ PreflightBlock
    \/ PreflightFinish
    \/ RepackStart
    \/ RepackBlock
    \/ RepackFinish

SchemaSpec == SchemaInit /\ [][SchemaNext]_vars

----------------------------------------------------------------------------
(* Manifests without a base signature (manifest.get("base_sig") is None, as
   for a manifest of a version that did not record it): the signature check
   is skipped and only the region checks guard against a changed base file. *)

\* manifest.json is replaced by one that has no base_sig.
DropBaseSig ==
    /\ pc = "edit"
    /\ manifest.present
    /\ manifest.base_sig # <<>>
    /\ manifest' = [manifest EXCEPT !.base_sig = <<>>]
    /\ UNCHANGED <<base, base_extracted, fs, unreadable, pc, error, pf, pf_report,
                   rp, out_file, report_file, edited, extractions, scan>>

\* The base file changes in the first byte of the last block's region.
DriftLastBlock ==
    /\ pc = "edit"
    /\ base = base_extracted
    /\ manifest.blocks # <<>>
    /\ base' = [base EXCEPT ![manifest.blocks[Len(manifest.blocks)].offset + 1]
                              = (@ + 1) % 256]
    /\ UNCHANGED <<base_extracted, fs, unreadable, manifest, pc, error, pf,
                   pf_report, rp, out_file, report_file, edited, extractions, scan>>

LegacyNext ==
    \/ Extract
    \/ DropBaseSig
    \/ DriftLastBlock
    \/ EditBlock
    \/ PreflightStart
    \/ PreflightBlock
    \/ PreflightFinish
    \/ RepackStart
    \/ RepackBlock
    \/ RepackFinish

LegacySpec == SchemaInit /\ [][LegacyNext]_vars

----------------------------------------------------------------------------
(* The scanners on their own, on small files: the loop of scan_blocks one
   iteration at a time, scan_fallen_segments in one step. *)

\* The bound on the iterations of scan_blocks's loop; no file of ScanFiles
\* has as many anchors.
MaxIters == 6

\* The pieces the small h4si files are made of: the anchor, twelve base64
\* characters, a byte outside base64, and the anchor's first three bytes.
ScanPieces == {H4SI, Repeat(<<65>>, 12), <<0>>, <<72, 52, 115>>}

ScanH4siFiles ==
    ScanPieces
        \cup {a \o b : a \in ScanPieces, b \in ScanPieces}
        \cup {a \o b \o c : a \in ScanPieces, b \in ScanPieces, c \in ScanPieces}

\* One table entry: id, type, length, payload offset.
Entry(id, seg_len, payload_off) ==
    PackU32(id) \o PackU32(2) \o PackU32(seg_len) \o PackU32(payload_off)

\* Two sentinel-delimited payloads of 4 and 6 bytes after a header and table
\* of the given bytes.
TwoPayloads(head) ==
    head \o FALLEN_SENTINEL \o <<91, 0, 93, 0>>
         \o FALLEN_SENTINEL \o <<97, 0, 98, 0, 99, 0>>

\* A header and a table of two entries naming the two payloads, the later
\* payload first.
FileTableDescending ==
    TwoPayloads(FallenHeader(HeaderLen, 2)
                \o Entry(1, 6, HeaderLen + 2 * EntryLen + 8 + 4 + 8)
                \o Entry(2, 4, HeaderLen + 2 * EntryLen + 8))

\* The same table with the entries in file order.
FileTableAscending ==
    TwoPayloads(FallenHeader(HeaderLen, 2)
                \o Entry(1, 4, HeaderLen + 2 * EntryLen + 8)
                \o Entry(2, 6, HeaderLen + 2 * EntryLen + 8 + 4 + 8))

\* Malformed tables.  A base length of 8 puts "entry 0" on the header's own
\* fields: its length is the entry count (2) and its payload offset the
\* flags field (32), which names the first payload.
FileBaseLenShort ==
    TwoPayloads(FALLEN_MAGIC \o <<0, 0>> \o PackU32(8) \o PackU32(1)
                \o PackU32(2) \o PackU32(HeaderLen + 8))

FileBaseLenHuge ==
    TwoPayloads(FallenHeader(TableLimit + 1, 1) \o Entry(1, 4, HeaderLen + EntryLen + 8))

FileCountHuge ==
    TwoPayloads(FallenHeader(HeaderLen, TableLimit + 1)
                \o Entry(1, 4, HeaderLen + EntryLen + 8))

FileTableTooLong ==
    TwoPayloads(FallenHeader(HeaderLen, 5) \o Entry(1, 4, HeaderLen + EntryLen + 8))

\* Entries with payload offset 0, length 0, an end past the file, an offset
\* inside the header, and an offset that no sentinel precedes.
FileNoEntryAccepted ==
    TwoPayloads(FallenHeader(HeaderLen, 5)
                \o Entry(1, 4, 0)
                \o Entry(2, 0, HeaderLen + 5 * EntryLen + 8)
                \o Entry(3, 99, HeaderLen + 5 * EntryLen + 8)
                \o Entry(4, 4, 6)
                \o Entry(5, 4, HeaderLen + 5 * EntryLen + 10))

\* Files shorter than a header: a sentinel and two bytes, and the magic only.
FileShort == FALLEN_SENTINEL \o <<91, 0>>

ScanFallenFiles ==
    {FileFallenSentinels, FileFallenTable, FileTableDescending, FileTableAscending,
     FileBaseLenShort, FileBaseLenHuge, FileCountHuge, FileTableTooLong,
     FileNoEntryAccepted, FileShort, FALLEN_MAGIC}

ScanFiles == ScanH4siFiles \cup ScanFallenFiles

\* The state before anything ran, with one of the given files as base file.
StartOn(files) ==
    /\ base \in files
    /\ base_extracted = <<>>
    /\ fs = <<>>
    /\ unreadable = {}
    /\ manifest = NoManifest
    /\ pc = "start"
    /\ error = ""
    /\ pf = NoPreflight
    /\ pf_report = FALSE
    /\ rp = NoRepack
    /\ out_file = NoFile
    /\ report_file = NoReport
    /\ edited = FALSE
    /\ extractions = 0
    /\ scan = NoScan

ScanInit == StartOn(ScanFiles)

\* An iteration that resumes the search at the anchor it found.
ScanFoundResumingAtAnchor(off) ==
    scan' = [pos |-> off,
             blocks |-> scan.blocks
                          \o StoredSegment(off, Slice(base, off, RunEnd(base, off))),
             iters |-> scan.iters + 1,
             done |-> FALSE]

\* One iteration of the loop of scan_blocks that finds an anchor at off.
ScanFound(off) ==
    scan' = [pos |-> off + 4,
             blocks |-> scan.blocks
                          \o StoredSegment(off, Slice(base, off, RunEnd(base, off))),
             iters |-> scan.iters + 1,
             done |-> FALSE]

ScanIter ==
    /\ ContainerOf(base) = "h4si"
    /\ ~scan.done
    /\ scan.iters < MaxIters
    /\ Find(base, H4SI, scan.pos) >= 0
    /\ ScanFound(Find(base, H4SI, scan.pos))
    /\ UNCHANGED <<base, base_extracted, fs, unreadable, manifest, pc, error, pf,
                   pf_report, rp, out_file, report_file, edited, extractions>>

\* The iteration that finds no anchor: break, return blocks.
ScanExit ==
    /\ ContainerOf(base) = "h4si"
    /\ ~scan.done
    /\ Find(base, H4SI, scan.pos) < 0
    /\ scan' = [scan EXCEPT !.done = TRUE]
    /\ UNCHANGED <<base, base_extracted, fs, unreadable, manifest, pc, error, pf,
                   pf_report, rp, out_file, report_file, edited, extractions>>

\* scan_fallen_segments(data)
ScanFallen ==
    /\ ContainerOf(base) = "fallen"
    /\ ~scan.done
    /\ scan' = [scan EXCEPT !.blocks = scan_fallen_segments(base), !.done = TRUE]
    /\ UNCHANGED <<base, base_extracted, fs, unreadable, manifest, pc, error, pf,
                   pf_report, rp, out_file, report_file, edited, extractions>>

ScanNext ==
    \/ ScanIter
    \/ ScanExit
    \/ ScanFallen

ScanSpec == ScanInit /\ [][ScanNext]_vars

\* The loop of scan_blocks runs on as long as it can.
ScanFairSpec == ScanSpec /\ WF_vars(ScanNext)

----------------------------------------------------------------------------
(* The extraction of FALLEN files with one segment, for many payloads. *)

\* The pieces the payloads are made of: the JSON text [1], the three embedded
\* tail markers, one byte (which shifts what follows to an odd offset), the
\* letter a, and a NUL code unit.
TrimPieces ==
    {Utf16Encode(ArrText(1, FALSE)), <<7>>, <<97, 0>>, <<0, 0>>} \cup MarkerCandidates

TrimPayloads ==
    TrimPieces
        \cup {a \o b : a \in TrimPieces, b \in TrimPieces}
        \cup {a \o b \o c : a \in TrimPieces, b \in TrimPieces, c \in TrimPieces}

\* A FALLEN file without a usable table whose one segment is the payload.
TrimFiles == {FallenHeader(0, 0) \o FALLEN_SENTINEL \o p : p \in TrimPayloads}

TrimInit == StartOn(TrimFiles)

TrimNext == Extract

TrimSpec == TrimInit /\ [][TrimNext]_vars

----------------------------------------------------------------------------
(* Edit cycles: extract, edit, repack, and the output as the next base file. *)

\* The bound on the rounds whose output becomes the next base file.
MaxRounds == 2

RoundFiles == {FileTwoBlocks, FileConcatenated, FileFallenSentinels, FileFallenTable}

\* What the edit of a round leaves in a block file: an empty file, a JSON
\* array as UTF-16LE, compact or spaced, or a few raw bytes.
RoundContents ==
    {<<>>, Utf16Encode(ArrText(9, FALSE)), Utf16Encode(ArrText(3, TRUE)), <<9, 9, 9>>}

\* The user replaces the content of one block file, once per round.
RoundEdit ==
    /\ pc = "edit"
    /\ ~edited
    /\ \E p \in BlockNames : \E b \in RoundContents : fs' = WriteFile(fs, p, b)
    /\ edited' = TRUE
    /\ UNCHANGED <<base, base_extracted, unreadable, manifest, pc, error, pf,
                   pf_report, rp, out_file, report_file, extractions, scan>>

\* The output repack wrote becomes the base file and is extracted into the
\* same directory.
NextRound ==
    /\ pc = "done"
    /\ extractions <= MaxRounds
    /\ extractions' = extractions + 1
    /\ base' = out_file.bytes
    /\ base_extracted' = out_file.bytes
    /\ ExtractEnd(out_file.bytes, ExtractRun(out_file.bytes, fs))
    /\ unreadable' = {}
    /\ edited' = FALSE
    /\ UNCHANGED <<pf, pf_report, rp, out_file, report_file, scan>>

RoundInit == StartOn(RoundFiles)

RoundNext ==
    \/ Extract
    \/ RoundEdit
    \/ RepackStart
    \/ RepackBlock
    \/ RepackFinish
    \/ NextRound

RoundSpec == RoundInit /\ [][RoundNext]_vars

----------------------------------------------------------------------------
(* The writes of manifest.json and of the output file, step by step, with
   the process interrupted between two steps.  Path.write_text and
   Path.write_bytes open the path for writing, which creates or truncates
   the file, write the data and close the file.  Here fs also holds the text
   of manifest.json, and manifest is what the last complete manifest.json
   loads to. *)

\* The largest number of bytes one write call stores.
ChunkLen == 64

ManifestPath == <<"manifest.json">>

\* json.dumps(manifest, indent=2), each number one unit of text, between
\* braces.
BlockText(bi) ==
    <<LBRACK, bi.index, bi.offset, bi.stored_len, bi.gzip_mtime,
      bi.payload_prefix_len>> \o bi.file_sha1 \o bi.region_sha1 \o <<RBRACK>>

RECURSIVE BlocksText(_, _)
BlocksText(blocks, k) ==
    IF k > Len(blocks) THEN <<>>
    ELSE BlockText(blocks[k]) \o BlocksText(blocks, k + 1)

ManifestText(m) ==
    <<123, m.file_size>> \o m.base_sig \o BlocksText(m.blocks, 1) \o <<RBRACE>>

\* The manifest extract builds for the base file data.
ExtractedManifest(data) == ManifestOf(data, ExtractRun(data, <<>>).infos)

\* A file holding cur after one more write call on the way to data.
Extended(cur, data) == Slice(data, 0, Min(Len(data), Len(cur) + ChunkLen))

\* extract up to the write of manifest.json: the directories are wiped and
\* the block files are written.
ExtractFiles ==
    /\ pc = "start"
    /\ fs' = ExtractRun(base, fs).files
    /\ pc' = IF ExtractRun(base, fs).raised THEN "raised" ELSE "extracted"
    /\ error' = IF ExtractRun(base, fs).raised THEN "zlib.error" ELSE ""
    /\ base_extracted' = base
    /\ unreadable' = {}
    /\ edited' = FALSE
    /\ extractions' = extractions + 1
    /\ UNCHANGED <<base, manifest, pf, pf_report, rp, out_file, report_file, scan>>

\* manifest_path.write_text(...): the file is opened, written and closed.
ManifestOpen ==
    /\ pc = "extracted"
    /\ fs' = WriteFile(fs, ManifestPath, <<>>)
    /\ pc' = "manifest_open"
    /\ UNCHANGED <<base, base_extracted, unreadable, manifest, error, pf, pf_report,
                   rp, out_file, report_file, edited, extractions, scan>>

ManifestWrite ==
    /\ pc = "manifest_open"
    /\ fs[ManifestPath] # ManifestText(ExtractedManifest(base))
    /\ fs' = WriteFile(fs, ManifestPath,
                       Extended(fs[ManifestPath],
                                ManifestText(ExtractedManifest(base))))
    /\ UNCHANGED <<base, base_extracted, unreadable, manifest, pc, error, pf,
                   pf_report, rp, out_file, report_file, edited, extractions, scan>>

ManifestClose ==
    /\ pc = "manifest_open"
    /\ fs[ManifestPath] = ManifestText(ExtractedManifest(base))
    /\ manifest' = ExtractedManifest(base)
    /\ pc' = "edit"
    /\ UNCHANGED <<base, base_extracted, fs, unreadable, error, pf, pf_report, rp,
                   out_file, report_file, edited, extractions, scan>>

\* The user starts another extraction, of any base file, into the directory.
ExtractAgain ==
    /\ pc = "edit"
    /\ ~edited
    /\ extractions < MaxExtractions
    /\ \E data \in BaseFiles : base' = data
    /\ pc' = "start"
    /\ UNCHANGED <<base_extracted, fs, unreadable, manifest, error, pf, pf_report,
                   rp, out_file, report_file, edited, extractions, scan>>

\* out_path.write_bytes(bytes(out)): the file is opened, written and closed;
\* the rebuild report follows.
OutOpen ==
    /\ pc = "rp"
    /\ rp.i = Len(manifest.blocks)
    /\ out_file' = [written |-> TRUE, bytes |-> <<>>]
    /\ pc' = "out_open"
    /\ UNCHANGED <<base, base_extracted, fs, unreadable, manifest, error, pf,
                   pf_report, rp, report_file, edited, extractions, scan>>

OutWrite ==
    /\ pc = "out_open"
    /\ out_file.bytes # rp.out
    /\ out_file' = [written |-> TRUE, bytes |-> Extended(out_file.bytes, rp.out)]
    /\ UNCHANGED <<base, base_extracted, fs, unreadable, manifest, pc, error, pf,
                   pf_report, rp, report_file, edited, extractions, scan>>

OutClose ==
    /\ pc = "out_open"
    /\ out_file.bytes = rp.out
    /\ report_file' = [written |-> TRUE, lines |-> rp.report_lines, ok |-> rp.ok,
                       skipped |-> rp.skipped, fail |-> rp.fail]
    /\ pc' = "done"
    /\ UNCHANGED <<base, base_extracted, fs, unreadable, manifest, error, pf,
                   pf_report, rp, out_file, edited, extractions, scan>>

\* The process is killed, or the machine loses power, during a write.
Interrupt ==
    /\ pc \in {"manifest_open", "out_open"}
    /\ pc' = "killed"
    /\ UNCHANGED <<base, base_extracted, fs, unreadable, manifest, error, pf,
                   pf_report, rp, out_file, report_file, edited, extractions, scan>>

WriteNext ==
    \/ ExtractFiles
    \/ ManifestOpen
    \/ ManifestWrite
    \/ ManifestClose
    \/ ExtractAgain
    \/ EditBlock
    \/ RepackStart
    \/ RepackBlock
    \/ OutOpen
    \/ OutWrite
    \/ OutClose
    \/ Interrupt

WriteSpec == Init /\ [][WriteNext]_vars

----------------------------------------------------------------------------
(* The properties *)

\* The bytes of data at [offset, offset + stored_len) for block bi.
RegionOf(data, bi) == Slice(data, bi.offset, bi.offset + bi.stored_len)

\* The block file of bi can be read, and holds other bytes than extract wrote.
Replaced(bi) ==
    /\ bi.out_name \in DOMAIN fs
    /\ bi.out_name \notin unreadable
    /\ Sha1(fs[bi.out_name]) # bi.file_sha1

\* The length the replaced block file re-encodes to, and the room it has.
NewLen(bi) == Len(NewPayload(manifest.container, bi, fs[bi.out_name]))

Room(bi) ==
    IF bi.kind = "fallen_text"
    THEN (IF bi.payload_prefix_len > 0 THEN bi.payload_prefix_len ELSE bi.stored_len)
    ELSE bi.stored_len

\* The status tags of the report lines written so far.
LineStatus(k) == rp.report_lines[k].status

(* C1: round-trip identity.  When repack has finished on a directory in which
   no block file was changed since extract wrote it, the output file equals
   the base file byte for byte and the counters are ok = 0 and fail = 0:
   every block was skipped as unchanged. *)
C1_RoundTripIdentity ==
    (pc = "done" /\ ~edited) =>
        /\ out_file.written
        /\ out_file.bytes = base
        /\ report_file.ok = 0
        /\ report_file.fail = 0
        /\ report_file.skipped = Len(manifest.blocks)
        /\ \A k \in 1..Len(report_file.lines) : report_file.lines[k].status = "SKIP"

C1_Witness ==
    /\ pc = "done"
    /\ ~edited
    /\ Len(manifest.blocks) = 2
    /\ report_file.skipped = 2
    /\ out_file.bytes = base

(* C2: drift detection.  When the base file differs from the file the
   manifest was extracted from, the step that starts repack or
   repack_preflight raises the signature-mismatch error: no block is
   processed, and neither the output file, the rebuild report nor the
   preflight report is written. *)
C2_DriftDetected ==
    [][(pc = "edit" /\ pc' # "edit" /\ base # base_extracted) =>
          /\ pc' = "raised"
          /\ error' = "signature mismatch"
          /\ pf' = NoPreflight
          /\ rp' = NoRepack
          /\ ~out_file'.written
          /\ ~report_file'.written
          /\ ~pf_report']_vars

\* The drift is in a byte outside every block's region.
C2_Witness ==
    /\ pc = "raised"
    /\ error = "signature mismatch"
    /\ base # base_extracted
    /\ Len(manifest.blocks) = 2
    /\ \A k \in 1..Len(manifest.blocks) :
          RegionOf(base, manifest.blocks[k]) = RegionOf(base_extracted, manifest.blocks[k])
    /\ ~out_file.written
    /\ ~report_file.written

(* C3: fixed capacity invariant.  When repack's loop has just counted an
   h4si block as OK, the bytes of the output at [offset, offset + stored_len)
   are the block's new base64 payload followed only by ASCII spaces, and
   they are exactly stored_len bytes. *)
C3_FixedCapacity ==
    (/\ pc \in {"rp", "done"}
     /\ rp.i >= 1
     /\ manifest.container = "h4si"
     /\ LineStatus(rp.i) = "OK") =>
        /\ Len(RegionOf(rp.out, manifest.blocks[rp.i])) = manifest.blocks[rp.i].stored_len
        /\ NewLen(manifest.blocks[rp.i]) <= manifest.blocks[rp.i].stored_len
        /\ Slice(RegionOf(rp.out, manifest.blocks[rp.i]), 0,
                 NewLen(manifest.blocks[rp.i]))
              = build_new_b64_for_block(manifest.blocks[rp.i],
                                        fs[manifest.blocks[rp.i].out_name])
        /\ \A k \in (NewLen(manifest.blocks[rp.i]) + 1)..manifest.blocks[rp.i].stored_len :
              RegionOf(rp.out, manifest.blocks[rp.i])[k] = SP

\* An h4si block written with padding after its payload.
C3_Witness ==
    /\ pc = "done"
    /\ manifest.container = "h4si"
    /\ LineStatus(rp.i) = "OK"
    /\ rp.report_lines[rp.i].wrote < manifest.blocks[rp.i].stored_len

(* C4: variant tail preservation.  After repack, for every fallen_text block
   it wrote as OK, the output bytes at
   [offset + payload_prefix_len, offset + stored_len) equal the base file's
   bytes in that range. *)
C4_TailPreserved ==
    pc = "done" =>
        \A k \in 1..Len(manifest.blocks) :
            (manifest.blocks[k].kind = "fallen_text" /\ LineStatus(k) = "OK") =>
                Slice(out_file.bytes,
                      manifest.blocks[k].offset + manifest.blocks[k].payload_prefix_len,
                      manifest.blocks[k].offset + manifest.blocks[k].stored_len)
                  = Slice(base,
                          manifest.blocks[k].offset + manifest.blocks[k].payload_prefix_len,
                          manifest.blocks[k].offset + manifest.blocks[k].stored_len)

(* C5: the output has the length of the base file.  Throughout repack's loop
   the bytearray being patched, and at its end the output file, have exactly
   as many bytes as the base file, whatever the blocks were: untouched,
   edited, missing, oversized or unreadable. *)
C5_OutputLength ==
    /\ pc \in {"rp", "done"} => Len(rp.out) = Len(base)
    /\ out_file.written => Len(out_file.bytes) = Len(base)

\* A FALLEN block written with a payload shorter than its capacity, beside a
\* block that failed.
C5_Witness ==
    /\ pc = "done"
    /\ out_file.written
    /\ manifest.container = "fallen"
    /\ report_file.fail = 1
    /\ \E k \in 1..Len(manifest.blocks) :
          /\ LineStatus(k) = "OK"
          /\ rp.report_lines[k].wrote < Room(manifest.blocks[k])

(* C6: capacity overflow is per block and fail-soft.  After repack, every
   block has its report line; a block whose replaced file re-encodes to more
   bytes than its capacity is FAIL with a warning, a block whose replaced
   file fits is OK, the only failed blocks are the oversized and the
   unreadable ones, the counters count these lines, and the output file is
   written. *)
C6_OverflowFailSoft ==
    pc = "done" =>
        /\ out_file.written
        /\ Len(report_file.lines) = Len(manifest.blocks)
        /\ \A k \in 1..Len(manifest.blocks) :
              /\ (Replaced(manifest.blocks[k])
                    /\ NewLen(manifest.blocks[k]) > Room(manifest.blocks[k])) =>
                      /\ LineStatus(k) = "FAIL"
                      /\ \E w \in 1..Len(rp.warnings) :
                            rp.warnings[w] = manifest.blocks[k].index
              /\ (Replaced(manifest.blocks[k])
                    /\ NewLen(manifest.blocks[k]) <= Room(manifest.blocks[k])) =>
                      LineStatus(k) = "OK"
              /\ LineStatus(k) = "FAIL" =>
                      \/ manifest.blocks[k].out_name \in unreadable
                      \/ NewLen(manifest.blocks[k]) > Room(manifest.blocks[k])
        /\ report_file.fail = Cardinality({k \in 1..Len(manifest.blocks) : LineStatus(k) = "FAIL"})
        /\ report_file.ok = Cardinality({k \in 1..Len(manifest.blocks) : LineStatus(k) = "OK"})
        /\ Len(rp.warnings) = report_file.fail

\* One oversized block failed, the other block, edited and fitting, is written.
C6_Witness ==
    /\ pc = "done"
    /\ out_file.written
    /\ unreadable = {}
    /\ report_file.fail = 1
    /\ report_file.ok = 1
    /\ \E k \in 1..Len(manifest.blocks) :
          /\ Replaced(manifest.blocks[k])
          /\ NewLen(manifest.blocks[k]) > Room(manifest.blocks[k])
          /\ LineStatus(k) = "FAIL"

(* C7: after repack, for every block it did not write as OK (file missing,
   unchanged, too large, unreadable) the output bytes at
   [offset, offset + stored_len) equal the base file's bytes there, whatever
   was written for the other blocks. *)
C7_NonOkRegionsKept ==
    pc = "done" =>
        \A k \in 1..Len(manifest.blocks) :
            LineStatus(k) # "OK" =>
                RegionOf(out_file.bytes, manifest.blocks[k])
                  = RegionOf(base, manifest.blocks[k])

\* Strip whitespace, base64-decode, decompress the first gzip member, decode
\* UTF-16LE: the text of block bi's region in data.
DecodedRegion(data, bi) ==
    Utf16Units(gunzip(TryB64Decode(StripWs(RegionOf(data, bi)), TRUE).raw).out)

\* The block file of bi was replaced by JSON text stored as UTF-16LE whose
\* compact form re-encodes within stored_len.
ReplacedByFittingJson(bi) ==
    /\ Replaced(bi)
    /\ Utf16Ok(fs[bi.out_name])
    /\ JsonLoads(Utf16Units(fs[bi.out_name]))
    /\ Len(b64_encode(gzip_compress(
              Utf16Encode(dump_json_compact(Utf16Units(fs[bi.out_name]))),
              bi.gzip_mtime))) <= bi.stored_len

(* C8: edit round-trip.  When repack's loop has just processed an h4si text
   block whose file was replaced by JSON text, stored as UTF-16LE, that
   re-encodes within stored_len, the block is OK and decoding its region of
   the output yields that JSON text in compact form. *)
C8_EditRoundTrip ==
    (/\ pc \in {"rp", "done"}
     /\ rp.i >= 1
     /\ manifest.container = "h4si"
     /\ manifest.blocks[rp.i].kind = "text"
     /\ ReplacedByFittingJson(manifest.blocks[rp.i])) =>
        /\ LineStatus(rp.i) = "OK"
        /\ DecodedRegion(rp.out, manifest.blocks[rp.i])
              = dump_json_compact(Utf16Units(fs[manifest.blocks[rp.i].out_name]))

(* C9: preflight classification.  Every item repack_preflight has appended
   has exactly one of the four statuses: SKIP exactly when the block file is
   missing or its digest equals the file_sha1 of the manifest; otherwise
   ERROR exactly when reading the file raises; otherwise OK when capacity
   minus the new encoded length is >= 0 and FAIL when it is < 0, and then
   new_len is the encoded length and headroom is capacity minus new_len. *)
C9_PreflightClassification ==
    \A k \in 1..Len(pf.items) :
        /\ pf.items[k].index = manifest.blocks[k].index
        /\ pf.items[k].status \in {"SKIP", "ERROR", "OK", "FAIL"}
        /\ (pf.items[k].status = "SKIP") <=>
              \/ manifest.blocks[k].out_name \notin DOMAIN fs
              \/ /\ manifest.blocks[k].out_name \notin unreadable
                 /\ Sha1(fs[manifest.blocks[k].out_name]) = manifest.blocks[k].file_sha1
        /\ (pf.items[k].status = "ERROR") <=>
              /\ manifest.blocks[k].out_name \in DOMAIN fs
              /\ manifest.blocks[k].out_name \in unreadable
        /\ (pf.items[k].status = "OK") =>
              /\ pf.items[k].new_len = NewLen(manifest.blocks[k])
              /\ pf.items[k].headroom = Room(manifest.blocks[k]) - pf.items[k].new_len
              /\ pf.items[k].headroom >= 0
        /\ (pf.items[k].status = "FAIL") =>
              /\ pf.items[k].new_len = NewLen(manifest.blocks[k])
              /\ pf.items[k].headroom = Room(manifest.blocks[k]) - pf.items[k].new_len
              /\ pf.items[k].headroom < 0

\* An exact fit (headroom 0) is OK, beside a block that is FAIL.
C9_Witness ==
    /\ pc = "pfdone"
    /\ \E j, k \in 1..Len(pf.items) :
          /\ pf.items[j].status = "OK"
          /\ pf.items[j].headroom = 0
          /\ pf.items[k].status = "FAIL"

(* C10: preflight and repack agree block by block.  When repack runs after
   repack_preflight on the same base file, manifest and block files, every
   block repack has processed is OK exactly when its preflight item is OK,
   FAIL exactly when the item is FAIL or ERROR, and SKIP exactly when the
   item is SKIP. *)
C10_PreflightRepackAgree ==
    (pf_report /\ pc \in {"rp", "done"}) =>
        \A k \in 1..Len(rp.report_lines) :
            /\ rp.report_lines[k].index = pf.items[k].index
            /\ (LineStatus(k) = "OK") <=> (pf.items[k].status = "OK")
            /\ (LineStatus(k) = "FAIL") <=> (pf.items[k].status \in {"FAIL", "ERROR"})
            /\ (LineStatus(k) = "SKIP") <=> (pf.items[k].status = "SKIP")

\* Both ran to the end: an exact fit written, the other block unreadable.
C10_Witness ==
    /\ pc = "done"
    /\ pf_report
    /\ \E j, k \in 1..Len(pf.items) :
          /\ pf.items[j].status = "OK"
          /\ pf.items[j].headroom = 0
          /\ LineStatus(j) = "OK"
          /\ pf.items[k].status = "ERROR"
          /\ LineStatus(k) = "FAIL"

----------------------------------------------------------------------------
\* The manifest on disk is the one the latest extraction wrote.
ManifestCurrent == manifest.present /\ manifest.base_sig = Sha1(base_extracted)

\* The latest extraction returned and nothing was touched since.
JustExtracted == pc = "edit" /\ ~edited /\ base = base_extracted /\ ManifestCurrent

(* C11: every segment the scanner finds gets a manifest block (a segment that
   fails to decode as one of kind raw_gz), so a manifest has as many blocks
   as the scanner found segments, one at each segment's offset. *)
C11_EverySegmentRecorded ==
    JustExtracted =>
        /\ Len(manifest.blocks) = Len(ScanOf(base_extracted))
        /\ \A k \in 1..Len(ScanOf(base_extracted)) :
              \E j \in 1..Len(manifest.blocks) :
                  manifest.blocks[j].offset = ScanOf(base_extracted)[k].off

(* C12: a segment that fails to decode never aborts extraction.  Once extract
   has run on a base file it has returned without an exception and the
   manifest on disk is the one of that base file. *)
C12_DecodeFailureNeverAborts ==
    base_extracted # <<>> => (error # "zlib.error" /\ ManifestCurrent)

(* C13: every block of a manifest extract wrote lies inside the base file:
   offset + stored_len <= file_size, in the h4si container and on both scan
   paths of the FALLEN container. *)
C13_BlocksInsideFile ==
    manifest.present =>
        \A k \in 1..Len(manifest.blocks) :
            manifest.blocks[k].offset + manifest.blocks[k].stored_len
                <= manifest.file_size

\* The table-driven parse dropped the entry that runs past the end of the
\* file and kept the one that ends with the file.
C13_Witness ==
    /\ JustExtracted
    /\ base_extracted = FileFallenTable
    /\ Len(manifest.blocks) = 2
    /\ manifest.blocks[2].offset + manifest.blocks[2].stored_len = manifest.file_size

\* The position among the scanned segments of the segment block bi was made
\* from.
SegPos(segs, bi) ==
    CHOOSE i \in 1..Len(segs) :
        segs[i].off = bi.offset /\ segs[i].stored_len = bi.stored_len

IsSegment(segs, bi) ==
    \E i \in 1..Len(segs) :
        segs[i].off = bi.offset /\ segs[i].stored_len = bi.stored_len

(* C14: within one extraction the manifest blocks come in scan discovery
   order and block k (counted from 0) has index k: no index is reused or
   skipped, also when scanned segments were not turned into blocks. *)
C14_IndexOrder ==
    /\ manifest.present =>
          \A k \in 1..Len(manifest.blocks) : manifest.blocks[k].index = k - 1
    /\ JustExtracted =>
          /\ \A k \in 1..Len(manifest.blocks) :
                IsSegment(ScanOf(base_extracted), manifest.blocks[k])
          /\ \A j, k \in 1..Len(manifest.blocks) :
                j < k => SegPos(ScanOf(base_extracted), manifest.blocks[j])
                            < SegPos(ScanOf(base_extracted), manifest.blocks[k])

\* Two of four scanned segments were skipped: the fourth segment is block 1.
C14_Witness ==
    /\ JustExtracted
    /\ base_extracted = FileSkippedSegments
    /\ Len(ScanOf(base_extracted)) = 4
    /\ Len(manifest.blocks) = 2
    /\ manifest.blocks[2].index = 1
    /\ SegPos(ScanOf(base_extracted), manifest.blocks[2]) = 4

(* C15: extraction is deterministic.  The blocks array of the manifest an
   extraction wrote, whatever the directory held before, is the blocks array
   an extraction of the same base file into an empty directory yields. *)
C15_Deterministic ==
    JustExtracted => manifest.blocks = ExtractRun(base_extracted, <<>>).infos

\* The second extraction into a directory has written its manifest.
C15_Witness ==
    /\ JustExtracted
    /\ extractions = 2
    /\ Len(manifest.blocks) = 2

\* The number of report lines with a status.
LinesWith(lines, status) ==
    Cardinality({k \in 1..Len(lines) : lines[k].status = status})

(* C17: whenever repack returns normally, ok + fail + skipped is the number
   of manifest blocks, the rebuild report is written with one outcome line
   per block in manifest order, and the warnings list has exactly fail
   entries. *)
C17_ReportComplete ==
    pc = "done" =>
        /\ out_file.written /\ report_file.written
        /\ report_file.ok + report_file.fail + report_file.skipped
              = Len(manifest.blocks)
        /\ Len(report_file.lines) = Len(manifest.blocks)
        /\ \A k \in 1..Len(manifest.blocks) :
              report_file.lines[k].index = manifest.blocks[k].index
        /\ LinesWith(report_file.lines, "OK") = report_file.ok
        /\ LinesWith(report_file.lines, "FAIL") = report_file.fail
        /\ LinesWith(report_file.lines, "SKIP") = report_file.skipped
        /\ Len(rp.warnings) = report_file.fail
        /\ \A k \in 1..Len(rp.warnings) :
              \E j \in 1..Len(report_file.lines) :
                  /\ report_file.lines[j].status = "FAIL"
                  /\ report_file.lines[j].index = rp.warnings[k]

\* A partial failure: one block failed and the other was skipped.
C17_Witness ==
    /\ pc = "done"
    /\ report_file.written
    /\ report_file.fail = 1
    /\ report_file.skipped = 1
    /\ Len(rp.warnings) = 1

\* The files under blocks/ and orig_regions/.
ExtractedFiles == {p \in DOMAIN fs : p[1] \in {"blocks", "orig_regions"}}

\* The files the manifest's blocks name.
ManifestFiles ==
    BlockNames \cup {manifest.blocks[k].orig_region : k \in 1..Len(manifest.blocks)}

(* C18: after any sequence of extractions into one directory, of the same or
   of different base files, the files under blocks/ and orig_regions/ are
   exactly those the blocks of the latest extraction's manifest name: no file
   of an earlier extraction survives. *)
C18_OnlyLatestFiles ==
    (ManifestCurrent /\ ~edited /\ error # "zlib.error") =>
        ExtractedFiles = ManifestFiles

\* A second extraction into the directory has returned.
C18_Witness ==
    /\ extractions = 2
    /\ ManifestCurrent /\ ~edited /\ pc = "edit"
    /\ ExtractedFiles # {}
    /\ manifest.container = "fallen"

(* C20: for every fallen_text block repack wrote with a new payload of n
   bytes, n at most the capacity, the output bytes at [offset, offset + n) are
   the new UTF-16LE payload and the bytes at [offset + n, offset + capacity)
   are all 0x00. *)
C20_VariantNulPadded ==
    (/\ pc = "rp" /\ rp.i > 0
     /\ IsFallenBlock(manifest.container, manifest.blocks[rp.i])
     /\ LineStatus(rp.i) = "OK")
        => /\ Slice(rp.out, manifest.blocks[rp.i].offset,
                    manifest.blocks[rp.i].offset + rp.report_lines[rp.i].wrote)
                = NewPayload(manifest.container, manifest.blocks[rp.i],
                             fs[manifest.blocks[rp.i].out_name])
           /\ \A j \in (manifest.blocks[rp.i].offset + rp.report_lines[rp.i].wrote)
                        ..(manifest.blocks[rp.i].offset
                            + Capacity(manifest.container, manifest.blocks[rp.i]) - 1) :
                 rp.out[j + 1] = 0

(* C16: manifest schema tolerance.  repack and repack_preflight load a
   manifest whose block records lack optional fields, which take their
   defaults, and a manifest whose block records carry unknown fields: loading
   the block records never raises. *)
C16_SchemaTolerant ==
    /\ error # "TypeError"
    /\ (pc \in {"pf", "rp"} /\ manifest.blocks # <<>>) =>
          \A f \in DOMAIN OptionalDefaults \ DOMAIN manifest.blocks[1] :
              LoadBlock(manifest.blocks[1])[f] = OptionalDefaults[f]

\* Block records without any optional field were loaded and repack returned.
C16_MissingOptionalLoaded ==
    /\ pc = "done"
    /\ manifest.blocks # <<>>
    /\ DOMAIN manifest.blocks[1] = RequiredFields
    /\ report_file.ok > 0

\* The content manifest.json had before the extraction under way began.
PreviousManifestText == IF manifest.present THEN {ManifestText(manifest)} ELSE {}

(* C19: the final artefacts are written atomically.  When extract or repack
   is interrupted while writing, manifest.json holds its complete previous
   content, or does not exist, or holds its complete new content, and so does
   the file at the output path: neither is ever a partially written file. *)
C19_AtomicWrites ==
    pc = "killed" =>
        /\ ManifestPath \in DOMAIN fs =>
              fs[ManifestPath] \in
                  PreviousManifestText \cup {ManifestText(ExtractedManifest(base))}
        /\ out_file.written => out_file.bytes = rp.out

(* C21: for every fallen_text block the capacity repack_preflight and repack
   compare the new payload's length with is the block's payload_prefix_len,
   whatever value extraction recorded, 0 included: no edit is accepted that
   occupies bytes at or beyond offset + payload_prefix_len. *)
C21_VariantCapacity ==
    /\ \A k \in 1..Len(pf.items) :
          (pf.items[k].kind = "fallen_text" /\ pf.items[k].status \in {"OK", "FAIL"})
            => /\ pf.items[k].headroom
                    = manifest.blocks[k].payload_prefix_len - pf.items[k].new_len
               /\ (pf.items[k].status = "OK"
                    <=> pf.items[k].new_len <= manifest.blocks[k].payload_prefix_len)
    /\ pc \in {"rp", "done"} =>
          \A k \in 1..Len(rp.report_lines) :
              (manifest.blocks[k].kind = "fallen_text" /\ LineStatus(k) = "OK")
                => rp.report_lines[k].wrote <= manifest.blocks[k].payload_prefix_len

(* C22: repack_preflight and repack validate the region checksum of every
   manifest block before any block is processed: when an operation ends with
   a region mismatch, no block has been classified, re-encoded or patched. *)
C22_ValidatedBeforeProcessing ==
    error = "region mismatch" =>
        /\ pf.items = <<>>
        /\ rp.report_lines = <<>>
        /\ rp.ok = 0

\* The byte range [off, off + stored_len) of a scanned segment.
RangeOf(seg) == seg.off..(seg.off + seg.stored_len - 1)

(* C23: every scanner returns its segments in strictly ascending file-offset
   order: scan_blocks, and scan_fallen_segments on the header-table path,
   whatever the accepted table entries are, and on the sentinel fallback. *)
C23_AscendingOffsets ==
    scan.done =>
        \A i \in 1..Len(scan.blocks), j \in 1..Len(scan.blocks) :
            i < j => scan.blocks[i].off < scan.blocks[j].off

\* The offsets at which the 8-byte sentinel occurs.
SentinelOccurrences(data) ==
    {p \in 0..(Len(data) - 1) : MatchAt(data, FALLEN_SENTINEL, p)}

\* Where the segment that starts at start ends under pure sentinel
\* delimiting: at the next sentinel, or at the end of the file.
DelimitedEnd(data, start) ==
    IF \E q \in SentinelOccurrences(data) : q >= start
    THEN SetMin({q \in SentinelOccurrences(data) : q >= start})
    ELSE Len(data)

\* segs is the result of pure sentinel delimiting: one segment per sentinel,
\* in file order, from just after it to the next sentinel or the end.
IsSentinelDelimiting(data, segs) ==
    /\ Len(segs) = Cardinality(SentinelOccurrences(data))
    /\ \A k \in 1..Len(segs) :
          /\ segs[k].off - Len(FALLEN_SENTINEL) \in SentinelOccurrences(data)
          /\ segs[k].off + segs[k].stored_len = DelimitedEnd(data, segs[k].off)
          /\ segs[k].bytes = Slice(data, segs[k].off, segs[k].off + segs[k].stored_len)
          /\ k > 1 => segs[k - 1].off < segs[k].off

\* The table entries i of a file's header that the scanner's checks accept.
AcceptedEntries(data, base_len, entry_count) ==
    {i \in 0..(entry_count - 1) :
        /\ U32(data, base_len + i * EntryLen + 12) >= Len(FALLEN_SENTINEL)
        /\ U32(data, base_len + i * EntryLen + 8) > 0
        /\ U32(data, base_len + i * EntryLen + 12) + U32(data, base_len + i * EntryLen + 8)
              <= Len(data)
        /\ MatchAt(data, FALLEN_SENTINEL,
                   U32(data, base_len + i * EntryLen + 12) - Len(FALLEN_SENTINEL))}

\* The header table of a file of at least 24 bytes is malformed: base length
\* outside 24..0x10000, entry count above 0x10000, table not fitting in the
\* file, or no entry accepted.
MalformedTable(data, base_len, entry_count) ==
    \/ base_len < HeaderLen
    \/ base_len > TableLimit
    \/ entry_count > TableLimit
    \/ base_len + entry_count * EntryLen > Len(data)
    \/ AcceptedEntries(data, base_len, entry_count) = {}

Malformed(data) ==
    /\ Len(data) >= HeaderLen
    /\ MalformedTable(data, U32(data, 8), U32(data, 16))

(* C24: for a Variant file whose header table is malformed,
   scan_fallen_segments returns exactly the segments of pure sentinel
   delimiting: one per occurrence of the sentinel, each from just after that
   sentinel to the next sentinel or the end of the file. *)
C24_MalformedTableFallsBack ==
    (scan.done /\ ContainerOf(base) = "fallen" /\ Malformed(base))
        => IsSentinelDelimiting(base, scan.blocks)

\* A file whose header names a base length below 24 was scanned and its two
\* sentinel-delimited segments returned.
C24_Witness ==
    /\ scan.done
    /\ ContainerOf(base) = "fallen"
    /\ Len(base) >= HeaderLen
    /\ U32(base, 8) < HeaderLen
    /\ Len(scan.blocks) = 2

(* C25: the segments scan_blocks returns never overlap: the byte ranges
   [offset, offset + stored_len) of any two of them are disjoint, also when
   the anchor H4sI occurs again inside a run of base64 bytes. *)
C25_NoOverlap ==
    (scan.done /\ ContainerOf(base) = "h4si") =>
        \A i \in 1..Len(scan.blocks), j \in 1..Len(scan.blocks) :
            i # j => RangeOf(scan.blocks[i]) \cap RangeOf(scan.blocks[j]) = {}

\* The offsets at which the anchor H4sI occurs.
AnchorOccurrences(data) == {p \in 0..(Len(data) - 1) : MatchAt(data, H4SI, p)}

(* C26: scan_blocks terminates on every finite input: the search position
   strictly increases on each iteration, and the loop ends after at most one
   iteration per occurrence of the anchor. *)
C26_ScanTerminates ==
    /\ <>scan.done
    /\ [][scan'.iters > scan.iters => scan'.pos > scan.pos]_vars
    /\ [](scan.iters <= Cardinality(AnchorOccurrences(base)))

\* The loop ended after two iterations on a file with two anchors in one
\* run of base64 bytes, each of which gave a segment.
C26_Witness ==
    /\ scan.done
    /\ ContainerOf(base) = "h4si"
    /\ scan.iters = 2
    /\ Cardinality(AnchorOccurrences(base)) = 2
    /\ Len(scan.blocks) = 2

(* C27: for every Variant segment the payload_prefix_len computed at
   extraction is an even number with 0 <= payload_prefix_len <= stored_len. *)
C27_PrefixLenEvenInRange ==
    \A k \in 1..Len(manifest.blocks) :
        manifest.blocks[k].kind = "fallen_text" =>
            /\ manifest.blocks[k].payload_prefix_len % 2 = 0
            /\ 0 <= manifest.blocks[k].payload_prefix_len
            /\ manifest.blocks[k].payload_prefix_len <= manifest.blocks[k].stored_len

\* The positions of the embedded tail markers in the region of block k.
MarkersIn(k) ==
    {m \in 0..(manifest.blocks[k].stored_len - 1) :
        \E mk \in MarkerCandidates : MatchAt(RegionOf(base, manifest.blocks[k]), mk, m)}

\* A segment was extracted whose earliest marker stands at an odd position
\* before the JSON terminator: its prefix ends one byte before the marker.
C27_Witness ==
    /\ pc = "edit"
    /\ Len(manifest.blocks) = 1
    /\ manifest.blocks[1].kind = "fallen_text"
    /\ MarkersIn(1) # {}
    /\ SetMin(MarkersIn(1)) % 2 = 1
    /\ manifest.blocks[1].payload_prefix_len = SetMin(MarkersIn(1)) - 1
    /\ manifest.blocks[1].payload_prefix_len > 0

(* C28: for every Variant segment that contains an embedded tail marker
   (FALLEN followed by 00 00, 00 01 or 00 03) at byte position m, m = 0
   included, the recorded payload_prefix_len is at most m: the editable prefix
   never covers the marker or the bytes after it. *)
C28_PrefixBeforeMarker ==
    \A k \in 1..Len(manifest.blocks) :
        manifest.blocks[k].kind = "fallen_text" =>
            \A m \in MarkersIn(k) : manifest.blocks[k].payload_prefix_len <= m

\* The positions inside the region of a block that repack counted OK.
OkPositions ==
    UNION {bi.offset..(bi.offset + bi.stored_len - 1) :
             bi \in {manifest.blocks[k] : k \in {j \in 1..Len(rp.report_lines) :
                                                   LineStatus(j) = "OK"}}}

\* Every byte of out outside the regions of the OK blocks is the base file's.
SameOutsideOk(out) ==
    \A p \in (0..(Len(out) - 1)) \ OkPositions :
        p < Len(base) /\ out[p + 1] = base[p + 1]

(* C29: the repack output differs from the base file only inside the regions
   of the blocks counted OK: every output byte at a position outside
   [offset, offset + stored_len) of every OK block equals the base file's
   byte at that position, during repack's loop and in the file written. *)
C29_OnlyOkRegionsChange ==
    /\ pc = "rp" => SameOutsideOk(rp.out)
    /\ pc = "done" => SameOutsideOk(out_file.bytes)

\* repack finished with a block written and a block that failed, and the
\* output is not the base file.
C29_Witness ==
    /\ pc = "done"
    /\ out_file.bytes # base
    /\ \E k \in 1..Len(rp.report_lines) : LineStatus(k) = "OK"
    /\ \E k \in 1..Len(rp.report_lines) : LineStatus(k) = "FAIL"

\* The offset and stored_len of every block of a manifest, in order.
Geometry(m) ==
    [k \in 1..Len(m.blocks) |-> <<m.blocks[k].offset, m.blocks[k].stored_len>>]

(* C30: capacity is stable across edit cycles: whenever the output of a
   round of extract, edit and repack is extracted as the next base file, the
   extraction yields the same number of blocks with the same offset and
   stored_len values as the extraction before it, and so as the first one. *)
C30_CapacityStable ==
    [][(pc = "done" /\ extractions' > extractions)
          => (manifest'.present /\ Geometry(manifest') = Geometry(manifest))]_vars

====
